---- MODULE Spec2Model ----
(***************************************************************************)
(* A model of the burr fetch-and-crawl engine: the BFS crawler              *)
(* (internal/scraper/crawler.go), the robots auditor                        *)
(* (internal/scraper/robots.go), the fetcher (internal/scraper/fetcher.go)  *)
(* and the challenge detectors (internal/bypass).                           *)
(***************************************************************************)
EXTENDS Integers, Sequences, FiniteSets, TLC

(***************************************************************************)
(* Bounds of the model.                                                     *)
(***************************************************************************)
\* largest cfg.Concurrency of a crawl
MaxConcurrency == 2
\* largest cfg.MaxDepth of a crawl
MaxDepthBound == 2
\* number of Fetch calls of the stand-alone fetcher run
MaxFetches == 2
MaxProxyFetches == 2
\* the proxy pool: entries, the clock, calls made on the pool
MaxProxies == 2
MaxPoolTime == 2
MaxPoolCalls == 5
\* the limiter: goroutines calling Wait, Wait calls made, the clock
MaxWaiters == 2
MaxWaits == 3
MaxLimTime == 4
\* number of Analyze calls of the stand-alone detector run
MaxAnalyses == 1
\* goroutines calling IsAllowed at once, and IsAllowed calls in all
MaxAuditors == 2
MaxAuditCalls == 3
\* redirects in a chain the server answers with, and the largest MaxRedirects
MaxChain == 4
MaxRedirectsBound == 3
\* Do calls of one client
MaxClientCalls == 1
MaxSharedFetches == 2
\* characters of a searched content
MaxContent == 4
\* goroutines calling GetSequential, and GetSequential calls in all
MaxUACallers == 3
MaxUACalls == 5
\* results saved in a backend, the largest created_at, Save and Query calls in all
MaxRows == 3
MaxCreated == 2
MaxStoreCalls == 4

(***************************************************************************)
(* Program constants.                                                       *)
(***************************************************************************)
DefaultQueueSize == 10000
DefaultConcurrency == 3
StatusForbidden == 403
StatusServiceUnavailable == 503
StatusOK == 200
DefaultMaxFailures == 3
RobotsRedirects == 5
DefaultCooldown == 300
UnitsPerSecond == 2

(***************************************************************************)
(* Strings that the code inspects character by character (host names and    *)
(* scope domains) are sequences of one-character strings.                   *)
(***************************************************************************)
ToLowerChar(c) ==
    CASE c = "A" -> "a"
      [] c = "C" -> "c"
      [] c = "X" -> "x"
      [] OTHER -> c

ToLower(s) == [i \in 1..Len(s) |-> ToLowerChar(s[i])]

HasSuffix(s, suffix) ==
    /\ Len(s) >= Len(suffix)
    /\ \A i \in 1..Len(suffix) : s[Len(s) - Len(suffix) + i] = suffix[i]

HostA    == <<"a", ".", "c">>
HostSub  == <<"X", ".", "a", ".", "c">>
HostNear == <<"x", "a", ".", "c">>
HostExt  == <<"b", ".", "c">>
DomainA  == <<"A", ".", "c">>
NoHost   == << >>

(***************************************************************************)
(* The raw URL strings of the modelled web, and what url.Parse makes of     *)
(* each: ok = FALSE is a parse error.                                       *)
(***************************************************************************)
RawURLs == {"s", "t", "a", "x", "x#f", "z", "sub", "blk", "ext", "near", "mail", "bad"}

ParsedURL(ok, scheme, host, path, fragment) ==
    [ok |-> ok, Scheme |-> scheme, Host |-> host, Path |-> path, Fragment |-> fragment]

ParseString(rawURL) ==
    CASE rawURL = "s"    -> ParsedURL(TRUE, "http", HostA, "/", "")
      [] rawURL = "t"    -> ParsedURL(TRUE, "http", HostA, "/t", "")
      [] rawURL = "a"    -> ParsedURL(TRUE, "http", HostA, "/a", "")
      [] rawURL = "x"    -> ParsedURL(TRUE, "http", HostA, "/x", "")
      [] rawURL = "x#f"  -> ParsedURL(TRUE, "http", HostA, "/x", "f")
      [] rawURL = "z"    -> ParsedURL(TRUE, "https", HostA, "/z", "")
      [] rawURL = "sub"  -> ParsedURL(TRUE, "http", HostSub, "/", "")
      [] rawURL = "blk"  -> ParsedURL(TRUE, "http", HostA, "/blocked", "")
      [] rawURL = "ext"  -> ParsedURL(TRUE, "http", HostExt, "/", "")
      [] rawURL = "near" -> ParsedURL(TRUE, "http", HostNear, "/", "")
      [] rawURL = "mail" -> ParsedURL(TRUE, "mailto", NoHost, "", "")
      [] rawURL = "http://a.c/robots.txt"   -> ParsedURL(TRUE, "http", HostA, "/robots.txt", "")
      [] rawURL = "https://a.c/robots.txt"  -> ParsedURL(TRUE, "https", HostA, "/robots.txt", "")
      [] rawURL = "http://X.a.c/robots.txt" -> ParsedURL(TRUE, "http", HostSub, "/robots.txt", "")
      [] rawURL = "http://b.c/robots.txt"   -> ParsedURL(TRUE, "http", HostExt, "/robots.txt", "")
      [] rawURL = "http://xa.c/robots.txt"  -> ParsedURL(TRUE, "http", HostNear, "/robots.txt", "")
      [] OTHER           -> ParsedURL(FALSE, "", NoHost, "", "")

RobotsURLs == {"http://a.c/robots.txt", "https://a.c/robots.txt", "http://X.a.c/robots.txt",
               "http://b.c/robots.txt", "http://xa.c/robots.txt"}

ParseTable == [n \in RawURLs \cup RobotsURLs |-> ParseString(n)]

\* url.Parse
Parse(rawURL) == ParseTable[rawURL]

StringTable ==
    [u \in {ParseTable[n] : n \in RawURLs} |-> CHOOSE n \in RawURLs : ParseTable[n] = u]

\* (*url.URL).String(): the raw string of a parsed URL
String(u) == StringTable[u]

\* the canonical form: the fragment stripped, everything else unchanged
CanonTable ==
    [n \in RawURLs |->
        IF ParseTable[n].ok THEN String([ParseTable[n] EXCEPT !.Fragment = ""]) ELSE n]

Canon(rawURL) == CanonTable[rawURL]

CanonURLs == {Canon(n) : n \in RawURLs}

(***************************************************************************)
(* The web the crawl runs against: what each canonical URL serves.          *)
(***************************************************************************)
Page(status, ctype, server, links) ==
    [status |-> status, ctype |-> ctype, server |-> server, links |-> links]

Web(c) ==
    CASE c = "s"   -> Page(StatusOK, "text/html", "nginx",
                           <<"a", "x", "sub", "blk", "ext", "near", "mail", "bad">>)
      [] c = "t"   -> Page(StatusOK, "Text/HTML; charset=utf-8", "nginx",
                           <<"a", "x#f", "sub", "blk">>)
      [] c = "a"   -> Page(StatusOK, "text/html", "nginx", <<"x#f", "s">>)
      [] c = "x"   -> Page(StatusOK, "text/html", "nginx", <<"z">>)
      [] c = "blk" -> Page(StatusForbidden, "text/html", "cloudflare", << >>)
      [] OTHER     -> Page(StatusOK, "text/html", "nginx", << >>)

\* strings.Contains(strings.ToLower(contentType), "text/html")
IsHTML(ctype) == ctype \in {"text/html", "Text/HTML; charset=utf-8"}

(***************************************************************************)
(* storage.ScrapeResult, as far as the engine reads or writes it.  Body is  *)
(* the set of signature strings the bytes contain; Links is the list of     *)
(* anchors an HTML parse of the bytes yields.                               *)
(***************************************************************************)
NoHeaders ==
    [ContentType |-> "", Server |-> "", XDataDome |-> "", XDataDomeResponse |-> "",
     XPxCaptcha |-> ""]

NewResult(targetURL) ==
    [URL |-> targetURL, Method |-> "GET", StatusCode |-> 0, Headers |-> NoHeaders,
     Body |-> {}, Links |-> << >>, Error |-> "", DetectedBot |-> FALSE,
     DetectionSrc |-> ""]

NilResult == [URL |-> "nil"]

(***************************************************************************)
(* internal/bypass: the detectors and Analyze.                              *)
(***************************************************************************)
\* strings.Contains(strings.ToLower(server), vendor)
ServerContains(server, vendor) ==
    \/ vendor = "cloudflare" /\ server \in {"cloudflare", "Cloudflare"}
    \/ vendor = "akamai" /\ server \in {"AkamaiGHost"}
    \/ vendor = "datadome" /\ server \in {"DataDome"}

detectCloudflare(res) ==
    /\ res.StatusCode = StatusForbidden \/ res.StatusCode = StatusServiceUnavailable
    /\ \/ ServerContains(res.Headers.Server, "cloudflare")
       \/ res.Body \cap {"cf-browser-verification", "cloudflare-nginx", "cf-turnstile",
                         "Attention Required! | Cloudflare"} # {}

detectAkamai(res) ==
    /\ res.StatusCode = StatusForbidden
    /\ \/ ServerContains(res.Headers.Server, "akamai")
       \/ {"Reference #", "Access Denied"} \subseteq res.Body

detectDataDome(res) ==
    /\ res.StatusCode = StatusForbidden
    /\ \/ ServerContains(res.Headers.Server, "datadome")
       \/ res.Headers.XDataDome # "" \/ res.Headers.XDataDomeResponse # ""
       \/ res.Body \cap {"geo.captcha-delivery.com", "datadome"} # {}

detectPerimeterX(res) ==
    /\ res.StatusCode = StatusForbidden
    /\ \/ res.Headers.XPxCaptcha # ""
       \/ res.Body \cap {"client.perimeterx.net", "px-captcha", "_pxBlock"} # {}

\* the default chain with Akamai moved to the front
DefaultDetectors_AkamaiFirst == <<"Akamai", "Cloudflare", "DataDome", "PerimeterX">>

DefaultDetectors == <<"Cloudflare", "Akamai", "DataDome", "PerimeterX">>

Detect(d, res) ==
    CASE d = "Cloudflare" -> detectCloudflare(res)
      [] d = "Akamai"     -> detectAkamai(res)
      [] d = "DataDome"   -> detectDataDome(res)
      [] OTHER            -> detectPerimeterX(res)

\* a detection that sets the flag and leaves the source as it was
Annotate_FlagOnly(res, source) == [res EXCEPT !.DetectedBot = TRUE]

\* res.DetectedBot = true; res.DetectionSrc = source
Annotate(res, source) == [res EXCEPT !.DetectedBot = TRUE, !.DetectionSrc = source]

\* no detection, and the annotations left as they were
ClearAnnotation_KeepStale(res) == res

\* res.DetectedBot = false; res.DetectionSrc = ""
ClearAnnotation(res) == [res EXCEPT !.DetectedBot = FALSE, !.DetectionSrc = ""]

\* Analyze: the result as the call leaves it; it returns the result's DetectedBot
RECURSIVE Analyze(_, _)
Analyze(res, detectors) ==
    IF res = NilResult THEN res
    ELSE IF detectors = << >> THEN ClearAnnotation(res)
    ELSE IF Detect(Head(detectors), res) THEN Annotate(res, Head(detectors))
    ELSE Analyze(res, Tail(detectors))

(***************************************************************************)
(* Fetcher.Fetch.  x is what the environment does to this one call:         *)
(*   x.limiter  "ok" | "cancelled"   the attached limiter's Wait            *)
(*   x.do       "ok" | "err"         client.Do (transport, timeout, ctx)    *)
(*   x.read     "ok" | "err"         io.ReadAll of the response body        *)
(*   x.resp     the response: status, headers, body                         *)
(* The value is the pair Fetch returns.                                     *)
(***************************************************************************)
Return(result, err) == [result |-> result, err |-> err]

FetchReadError(result) == [result EXCEPT !.Error = "failed to read body"]

\* the transport error returned to the caller instead of recorded in the result
FetchTransportError_Propagated(result) == Return(NilResult, "request failed")

FetchTransportError(result) == Return([result EXCEPT !.Error = "request failed"], "nil")

Fetch(hasLimiter, targetURL, x) ==
    IF hasLimiter /\ x.limiter = "cancelled"
    THEN Return([NewResult(targetURL) EXCEPT !.Error = "rate limiter failed"], "nil")
    ELSE
    LET result == NewResult(targetURL)
        u == Parse(targetURL)
    IN  IF ~u.ok
        THEN Return([result EXCEPT !.Error = "failed to create request"], "nil")
        ELSE IF x.do = "err" \/ u.Scheme \notin {"http", "https"}
        THEN FetchTransportError(result)
        ELSE LET afterRead == IF x.read = "err" THEN FetchReadError(result) ELSE result
                 filled == [afterRead EXCEPT !.StatusCode = x.resp.status,
                                             !.Headers = x.resp.headers,
                                             !.Body = x.resp.body,
                                             !.Links = x.resp.links]
             IN  Return(Analyze(filled, DefaultDetectors), "nil")

\* the response the modelled web gives for a canonical URL
Response(c) ==
    [status |-> Web(c).status,
     headers |-> [NoHeaders EXCEPT !.ContentType = Web(c).ctype, !.Server = Web(c).server],
     body |-> {}, links |-> Web(c).links]

Exchange(limiter, do, read, resp) ==
    [limiter |-> limiter, do |-> do, read |-> read, resp |-> resp]

(***************************************************************************)
(* robots.txt: the cache key scheme://host of a URL, the robots.txt URL of  *)
(* a key, and what each host serves there.  parses = FALSE is a body the    *)
(* robotstxt parser rejects; disallow is the set of paths the group that    *)
(* matches the crawler's user agent forbids; badBot says that the file      *)
(* carries a group "User-agent: BadBot" with "Disallow: /".                 *)
(***************************************************************************)
HostKeys == {"http://a.c", "https://a.c", "http://X.a.c", "http://b.c", "http://xa.c"}

\* u.Scheme + "://" + u.Host
HostKey(u) ==
    CASE u.Scheme = "http" /\ u.Host = HostA    -> "http://a.c"
      [] u.Scheme = "https" /\ u.Host = HostA   -> "https://a.c"
      [] u.Scheme = "http" /\ u.Host = HostSub  -> "http://X.a.c"
      [] u.Scheme = "http" /\ u.Host = HostExt  -> "http://b.c"
      [] OTHER                                  -> "http://xa.c"

\* fmt.Sprintf("%s/robots.txt", host)
RobotsURL(key) ==
    CASE key = "http://a.c"   -> "http://a.c/robots.txt"
      [] key = "https://a.c"  -> "https://a.c/robots.txt"
      [] key = "http://X.a.c" -> "http://X.a.c/robots.txt"
      [] key = "http://b.c"   -> "http://b.c/robots.txt"
      [] OTHER                -> "http://xa.c/robots.txt"

RobotsTxt(key) ==
    CASE key = "http://a.c"   -> [status |-> StatusOK, parses |-> TRUE, disallow |-> {"/blocked"}, badBot |-> TRUE]
      [] key = "https://a.c"  -> [status |-> StatusOK, parses |-> TRUE, disallow |-> {}, badBot |-> TRUE]
      [] key = "http://X.a.c" -> [status |-> 404, parses |-> TRUE, disallow |-> {}, badBot |-> TRUE]
      [] key = "http://b.c"   -> [status |-> StatusOK, parses |-> FALSE, disallow |-> {}, badBot |-> TRUE]
      [] OTHER                -> [status |-> StatusOK, parses |-> TRUE, disallow |-> {"/"}, badBot |-> TRUE]

RobotsResponse(key) ==
    [status |-> RobotsTxt(key).status,
     headers |-> [NoHeaders EXCEPT !.ContentType = "text/plain"],
     body |-> {}, links |-> << >>]

(***************************************************************************)
(* The crawls the model runs: a configuration, a seed list, and whether     *)
(* the environment may cancel ctx and may fail requests.                    *)
(***************************************************************************)
CrawlConfig(depth, conc, domains, robots, rps, qsize) ==
    [MaxDepth |-> depth, Concurrency |-> conc, Domains |-> domains,
     RespectRobots |-> robots, UserAgent |-> "", RequestsPerSecond |-> rps,
     QueueSize |-> qsize, Backend |-> TRUE]

Crawl(c, seeds, mayCancel, mayFail) ==
    [cfg |-> c, seeds |-> seeds, mayCancel |-> mayCancel, mayFail |-> mayFail]

\* NewCrawler's defaults
NewCrawler(c) ==
    [c EXCEPT !.Concurrency = IF c.Concurrency <= 0 THEN DefaultConcurrency ELSE c.Concurrency,
              !.UserAgent = IF c.UserAgent = "" THEN "*" ELSE c.UserAgent]

\* crawls whose termination is examined under fair scheduling
LiveCrawls ==
    { Crawl(CrawlConfig(d, 1, <<DomainA>>, rb, 0, 0), sd, cn, FALSE) :
        d \in 0..1, rb \in BOOLEAN, sd \in {<< >>, <<"ext", "mail">>, <<"s">>},
        cn \in BOOLEAN }
    \cup
    { Crawl(CrawlConfig(1, 2, <<DomainA>>, FALSE, 0, 6), <<"s", "t">>, FALSE, FALSE) }

\* concurrent crawls; three workers and more only uncancelled and two levels deep
ConcurrentCrawls ==
    { c \in { Crawl(CrawlConfig(d, conc, <<DomainA>>, FALSE, 0, 0), <<"s">>, cn, FALSE) :
                d \in 1..MaxDepthBound, conc \in 2..MaxConcurrency, cn \in BOOLEAN } :
        c.cfg.Concurrency = 2 \/ (~c.mayCancel /\ c.cfg.MaxDepth <= 2) }
    \cup
    { Crawl(CrawlConfig(1, 2, <<DomainA>>, TRUE, 0, 0), <<"s">>, FALSE, TRUE) }

Crawls ==
    \* sequential crawls: every depth, scope, robots gate, cancellation, failure
    { Crawl(CrawlConfig(d, 1, dom, rb, 0, 0), sd, cn, fl) :
        d \in 0..MaxDepthBound, dom \in {<< >>, <<HostExt, DomainA>>}, rb \in BOOLEAN,
        sd \in {<<"s">>, <<"t", "x#f", "x", "bad">>}, cn \in BOOLEAN, fl \in BOOLEAN }
    \cup
    \* a rate-limited crawl, a seed list larger than the queue, the default concurrency,
    \* a queue smaller than the fan-out of the seed page
    { Crawl(CrawlConfig(1, 1, <<DomainA>>, TRUE, 1, 0), <<"s">>, TRUE, FALSE),
      Crawl(CrawlConfig(0, 1, << >>, FALSE, 0, 1), <<"s", "t">>, FALSE, FALSE),
      Crawl(CrawlConfig(0, 0, << >>, FALSE, 0, 0), <<"s">>, FALSE, FALSE),
      Crawl(CrawlConfig(1, 1, <<DomainA>>, FALSE, 0, 2), <<"s">>, TRUE, FALSE) }
    \cup ConcurrentCrawls
    \cup LiveCrawls

(***************************************************************************)
(* pkg/proxy: the pool.  Time is counted in whole units; a raw proxy URL    *)
(* is one of a few strings, and url.Parse of it is a table.                 *)
(***************************************************************************)
PoolInputs == {"a", "http://a", "https://b", "socks5://c", "ftp://d", "%"}

\* strings.Contains(raw, "://")
HasSchemeSeparator(raw) == raw \in {"http://a", "https://b", "socks5://c", "ftp://d"}

\* "http://" + raw
PrefixHTTP(raw) == IF raw = "a" THEN "http://a" ELSE "http://%"

\* url.Parse of a proxy URL string; String() gives the string back
ParseProxy(str) ==
    [ok |-> str # "http://%",
     Scheme |-> CASE str \in {"http://a", "http://%"} -> "http"
                  [] str = "https://b"  -> "https"
                  [] str = "socks5://c" -> "socks5"
                  [] OTHER              -> "ftp",
     String |-> str]

NilProxyURL == [ok |-> FALSE, Scheme |-> "", String |-> "nil"]

\* the URLs MarkSuccess and MarkFailure are called with
ProxyURLs == {ParseProxy(str) : str \in {"http://a", "https://b", "socks5://c"}}

PoolConfig(maxFailures, cooldown) == [MaxFailures |-> maxFailures, Cooldown |-> cooldown]

NewPool(c) ==
    [proxies |-> << >>,
     currentIndex |-> 0,
     maxFailures |-> IF c.MaxFailures <= 0 THEN DefaultMaxFailures ELSE c.MaxFailures,
     cooldown |-> IF c.Cooldown <= 0 THEN DefaultCooldown ELSE c.Cooldown]

\* &Proxy{URL: u}
NewProxy(u) ==
    [URL |-> u, Failures |-> 0, Successes |-> 0, LastUsed |-> 0,
     Disabled |-> FALSE, DisabledUntil |-> 0]

PoolReturn(p, err) == [pool |-> p, err |-> err]

\* Pool.Add: every raw URL in turn; the first parse failure ends the call
RECURSIVE Add(_, _)
Add(p, rawURLs) ==
    IF rawURLs = << >> THEN PoolReturn(p, "nil")
    ELSE LET raw == IF HasSchemeSeparator(Head(rawURLs))
                    THEN Head(rawURLs)
                    ELSE PrefixHTTP(Head(rawURLs))
             u == ParseProxy(raw)
         IN  IF ~u.ok
             THEN PoolReturn(p, "context: parse")
             ELSE Add([p EXCEPT !.proxies = Append(@, NewProxy(u))], Tail(rawURLs))

\* p.currentIndex = (p.currentIndex + 1) % len(p.proxies), skipping an entry
Advance_SkipOne(index, n) == (index + 2) % n

\* p.currentIndex = (p.currentIndex + 1) % len(p.proxies)
Advance(index, n) == (index + 1) % n

\* a disabled entry re-enabled whatever the time
Revive_NoCooldown(prx, now) ==
    IF prx.Disabled THEN [prx EXCEPT !.Disabled = FALSE, !.Failures = 0] ELSE prx

\* if prx.Disabled && now.After(prx.DisabledUntil) { ... }
Revive(prx, now) ==
    IF prx.Disabled /\ now > prx.DisabledUntil
    THEN [prx EXCEPT !.Disabled = FALSE, !.Failures = 0]
    ELSE prx

NextReturn(p, url, idx, examined) ==
    [pool |-> p, url |-> url, idx |-> idx, examined |-> examined]

\* the loop of Pool.Next on a non-empty pool; indexes of p.proxies count from 0
RECURSIVE NextLoop(_, _, _, _)
NextLoop(p, now, startIndex, examined) ==
    LET at == p.currentIndex + 1
        prx == Revive(p.proxies[at], now)
        advanced == [p EXCEPT !.currentIndex = Advance(p.currentIndex, Len(p.proxies)),
                              !.proxies[at] = prx]
    IN  IF ~prx.Disabled
        THEN NextReturn([advanced EXCEPT !.proxies[at].LastUsed = now],
                        prx.URL, at, examined + 1)
        ELSE IF advanced.currentIndex = startIndex
        THEN NextReturn(advanced, NilProxyURL, 0, examined + 1)
        ELSE NextLoop(advanced, now, startIndex, examined + 1)

\* Pool.Next
PoolNext(p, now) ==
    IF Len(p.proxies) = 0
    THEN NextReturn(p, NilProxyURL, 0, 0)
    ELSE NextLoop(p, now, p.currentIndex, 0)

\* Pool.findProxy: the index of the first entry with that String(), 0 for nil
FindProxy(p, u) ==
    IF \E i \in 1..Len(p.proxies) : p.proxies[i].URL.String = u.String
    THEN CHOOSE i \in 1..Len(p.proxies) :
            /\ p.proxies[i].URL.String = u.String
            /\ \A j \in 1..(i - 1) : p.proxies[j].URL.String # u.String
    ELSE 0

\* Pool.MarkSuccess
MarkSuccess(p, u) ==
    IF u = NilProxyURL THEN PoolReturn(p, "context: proxyURL cannot be nil")
    ELSE LET i == FindProxy(p, u)
         IN  IF i = 0 THEN PoolReturn(p, "context: proxy not found in pool")
             ELSE PoolReturn(
                    [p EXCEPT !.proxies[i].Successes = @ + 1,
                              !.proxies[i].Failures = IF @ > 0 THEN @ - 1 ELSE @],
                    "nil")

\* the entry disabled only once the counter is above the threshold
Disable_AboveThreshold(prx, maxFailures, now, cooldown) ==
    LET failed == [prx EXCEPT !.Failures = @ + 1]
    IN  IF failed.Failures > maxFailures
        THEN [failed EXCEPT !.Disabled = TRUE, !.DisabledUntil = now + cooldown]
        ELSE failed

\* prx.Failures++; at the threshold the entry is disabled for the cooldown
Disable(prx, maxFailures, now, cooldown) ==
    LET failed == [prx EXCEPT !.Failures = @ + 1]
    IN  IF failed.Failures >= maxFailures
        THEN [failed EXCEPT !.Disabled = TRUE, !.DisabledUntil = now + cooldown]
        ELSE failed

\* Pool.MarkFailure
MarkFailure(p, u, now) ==
    IF u = NilProxyURL THEN PoolReturn(p, "context: proxyURL cannot be nil")
    ELSE LET i == FindProxy(p, u)
         IN  IF i = 0 THEN PoolReturn(p, "context: proxy not found in pool")
             ELSE PoolReturn(
                    [p EXCEPT !.proxies[i] = Disable(@, p.maxFailures, now, p.cooldown)],
                    "nil")

(***************************************************************************)
(* pkg/ratelimit: the limiter.  time.Second is UnitsPerSecond clock units.  *)
(***************************************************************************)
\* NewLimiter: no ticker when rps <= 0, jitter clamped to [0, 1] otherwise
NewLimiter(rps, jitter) ==
    IF rps <= 0
    THEN [hasTicker |-> FALSE, rps |-> rps, jitter |-> jitter, interval |-> 0,
          stopped |-> FALSE]
    ELSE [hasTicker |-> TRUE, rps |-> rps,
          jitter |-> IF jitter < 0 THEN 0 ELSE IF jitter > 1 THEN 1 ELSE jitter,
          interval |-> UnitsPerSecond \div rps,
          stopped |-> FALSE]

\* the sleeps Wait may add after a tick: none, or a positive part of jitter * interval
JitterDurations(l) == IF l.jitter > 0 THEN 0..(l.jitter * l.interval) ELSE {0}

(***************************************************************************)
(* State.                                                                   *)
(***************************************************************************)
VARIABLES
    cfg,          \* Crawler.cfg, after NewCrawler's defaults
    input,        \* the seeds given to Run, and what the environment may do
    visited,      \* Crawler.visited: canonical URL strings
    queue,        \* the job channel of Run
    jobsWg,       \* the counter of Run's WaitGroup
    doneClosed,   \* the done channel of Run is closed
    ctxDone,      \* ctx (and with it gCtx) is cancelled
    runPc,        \* where Run is: "seed", "seedBlocked", "wait", "returned"
    seedIdx,      \* the seed Run's admission loop is at
    runErr,       \* what Run returned: "none" (not yet), "nil", "cancelled"
    workers,      \* the worker goroutines: pc, job, links, link index
    robotsCache,  \* RobotsTxtAuditor.cache: key -> "miss" | "nil" | "parsed"
    enqueued,     \* history: sends to the queue, per canonical URL
    fetched,      \* history: Fetch calls of processJob, per canonical URL
    saved,        \* history: Backend.Save calls, per canonical URL
    depthOf,      \* history: the depths at which each canonical URL was enqueued
    wgAtCancel,   \* history: -1 until ctx is cancelled, then 1 if the counter was above
                  \* zero at that moment and 0 if it was not
    fetchIn,      \* stand-alone fetcher: the call in progress
    fetchOut,     \* stand-alone fetcher: what the last call returned
    fetchCalls,   \* stand-alone fetcher: calls made
    pfOut,        \* fetcher with a proxy pool: what the last Fetch did with the pool
    pool,         \* proxy.Pool: proxies, currentIndex, maxFailures, cooldown
    poolClock,    \* time.Now() as the pool reads it
    poolOut,      \* the pool's last operation: arguments, pool before, what it returned
    poolHist,     \* history per pool entry: the run of MarkFailure calls, served entries
    lim,          \* ratelimit.Limiter: hasTicker, interval, jitter
    limClock,     \* time since NewLimiter
    limTick,      \* a tick is buffered in ticker.C
    limCtxDone,   \* the ctx given to Wait is cancelled
    limCallers,   \* the goroutines calling Wait: pc, wake-up time
    limHist,      \* history of Wait: return times of nil returns, the last return
    anIn,         \* bypass.Analyze: the result and detectors of the last call
    anOut,        \* bypass.Analyze: the result after the call, and after a second call
    anCalls,      \* bypass.Analyze: calls made
    audCache,     \* stand-alone RobotsTxtAuditor.cache: key -> "miss" | "nil" | "parsed"
    audCallers,   \* the goroutines calling IsAllowed: pc, URL, user agent, return
    audHist,      \* history per key: robots.txt fetches made, outcome of the first
    cliIn,        \* httpclient: Config.MaxRedirects and the redirect chain of the last Do
    cliOut,       \* httpclient: what the last Do returned, and the requests it made
    cliCalls,     \* httpclient: Do calls made
    fetcher,      \* a Fetcher shared with a RobotsTxtAuditor: config, client, the
                  \* auditor's position in getOrFetch and the value it saved
    rfOut,        \* the last fetch through that Fetcher: kind, redirect chain, return
    uaPool,       \* useragent.Pool: uas, counter
    uaCallers,    \* the goroutines calling GetSequential: pc, idx, returned value
    uaHist,       \* what the call that took each counter value returned
    stRows,       \* the storage backend's file: the saved results in file order
    stOut,        \* the last Query: its filter, the file it read, the results returned
    stCalls,      \* Save and Query calls made
    mtIn,         \* analyzer: the content and terms of the last search
    mtOut         \* analyzer: what FindTermMatches and FindTermMatchesOptimized returned

vars == <<cfg, input, visited, queue, jobsWg, doneClosed, ctxDone, runPc, seedIdx,
          runErr, workers, robotsCache, enqueued, fetched, saved, depthOf,
          wgAtCancel, fetchIn, fetchOut, fetchCalls, pfOut, pool, poolClock, poolOut, poolHist,
          lim, limClock, limTick, limCtxDone, limCallers, limHist, anIn, anOut, anCalls,
          audCache, audCallers, audHist, cliIn, cliOut, cliCalls, fetcher, rfOut, uaPool, uaCallers,
          uaHist, stRows, stOut, stCalls, mtIn, mtOut>>

crawlVars == <<cfg, input, visited, queue, jobsWg, doneClosed, ctxDone, runPc, seedIdx,
               runErr, workers, robotsCache, enqueued, fetched, saved, depthOf, wgAtCancel>>

fetchVars == <<fetchIn, fetchOut, fetchCalls, pfOut>>

poolVars == <<pool, poolClock, poolOut, poolHist>>

limVars == <<lim, limClock, limTick, limCtxDone, limCallers, limHist>>

anVars == <<anIn, anOut, anCalls>>

audVars == <<audCache, audCallers, audHist>>

\* everything outside the crawl
cliVars == <<cliIn, cliOut, cliCalls, fetcher, rfOut>>

uaVars == <<uaPool, uaCallers, uaHist>>

stVars == <<stRows, stOut, stCalls>>

mtVars == <<mtIn, mtOut>>

libVars == <<cliVars, uaVars, stVars, mtVars>>

unitVars == <<fetchVars, poolVars, limVars, anVars, audVars, libVars>>

NoJob == [URL |-> "", Depth |-> 0]

job(url, depth) == [URL |-> url, Depth |-> depth]

\* queueSize of Run
Capacity == IF cfg.QueueSize <= 0 THEN DefaultQueueSize ELSE cfg.QueueSize

(***************************************************************************)
(* Crawler.shouldVisit and Crawler.markVisited.                             *)
(***************************************************************************)
\* the scope loop comparing against the domains as configured, not lowercased
inScope_CaseSensitive(host, domains) ==
    \E i \in 1..Len(domains) :
        host = domains[i] \/ HasSuffix(host, <<".">> \o domains[i])

\* the scope loop of shouldVisit: host is already lowercased
inScope(host, domains) ==
    \E i \in 1..Len(domains) :
        LET d == ToLower(domains[i])
        IN  host = d \/ HasSuffix(host, <<".">> \o d)

shouldVisit(rawURL) ==
    LET u == Parse(rawURL)
    IN  IF ~u.ok THEN FALSE
        ELSE IF String([u EXCEPT !.Fragment = ""]) \in visited THEN FALSE
        ELSE IF Len(cfg.Domains) > 0 /\ ~inScope(ToLower(u.Host), cfg.Domains) THEN FALSE
        ELSE IF u.Scheme # "http" /\ u.Scheme # "https" THEN FALSE
        ELSE TRUE

\* the visited set after markVisited(rawURL)
markVisited(rawURL) ==
    LET u == Parse(rawURL)
    IN  visited \cup {IF u.ok THEN String([u EXCEPT !.Fragment = ""]) ELSE rawURL}

\* the links extractLinks returns for a fetched page, already resolved
extractLinks(baseURL, result) ==
    IF ~Parse(baseURL).ok THEN << >> ELSE result.Links

Count(f, c) == [f EXCEPT ![c] = @ + 1]

(***************************************************************************)
(* Crawler.Run: seed admission, start of the workers and of the goroutine   *)
(* that waits for the counter, and the final select.                        *)
(***************************************************************************)
\* one pass of the seed loop
Run_Seed ==
    /\ runPc = "seed"
    /\ seedIdx <= Len(input.seeds)
    /\ LET seed == input.seeds[seedIdx]
       IN  IF shouldVisit(seed)
           THEN /\ visited' = markVisited(seed)
                /\ IF Len(queue) < Capacity
                   THEN /\ queue' = Append(queue, job(seed, 0))
                        /\ enqueued' = Count(enqueued, Canon(seed))
                        /\ depthOf' = [depthOf EXCEPT ![Canon(seed)] = @ \cup {0}]
                        /\ seedIdx' = seedIdx + 1
                        /\ runPc' = runPc
                   ELSE \* the send blocks: no worker runs yet
                        /\ runPc' = "seedBlocked"
                        /\ UNCHANGED <<queue, enqueued, depthOf, seedIdx>>
           ELSE /\ seedIdx' = seedIdx + 1
                /\ UNCHANGED <<visited, queue, enqueued, depthOf, runPc>>
    /\ UNCHANGED <<cfg, input, jobsWg, doneClosed, ctxDone, runErr, workers,
                   robotsCache, fetched, saved, wgAtCancel, unitVars>>

\* jobsWg.Add(len(queue)), g.Go x Concurrency, go func() { jobsWg.Wait(); close(done) }
Run_Start ==
    /\ runPc = "seed"
    /\ seedIdx > Len(input.seeds)
    /\ jobsWg' = jobsWg + Len(queue)
    /\ workers' = [w \in DOMAIN workers |-> [workers[w] EXCEPT !.pc = "select"]]
    /\ runPc' = "wait"
    /\ UNCHANGED <<cfg, input, visited, queue, doneClosed, ctxDone, seedIdx, runErr,
                   robotsCache, enqueued, fetched, saved, depthOf, wgAtCancel, unitVars>>

\* the goroutine of Run that waits for the counter
Run_CloseDone ==
    /\ runPc \in {"wait", "returned"}
    /\ jobsWg = 0
    /\ ~doneClosed
    /\ doneClosed' = TRUE
    /\ UNCHANGED <<cfg, input, visited, queue, jobsWg, ctxDone, runPc, seedIdx, runErr,
                   workers, robotsCache, enqueued, fetched, saved, depthOf, wgAtCancel, unitVars>>

\* select { case <-gCtx.Done(): return gCtx.Err(); case <-done: }; return nil
Run_Select ==
    /\ runPc = "wait"
    /\ \/ ctxDone /\ runErr' = "cancelled"
       \/ doneClosed /\ runErr' = "nil"
    /\ runPc' = "returned"
    /\ UNCHANGED <<cfg, input, visited, queue, jobsWg, doneClosed, ctxDone, seedIdx,
                   workers, robotsCache, enqueued, fetched, saved, depthOf, wgAtCancel, unitVars>>

\* the caller cancels ctx
Cancel ==
    /\ input.mayCancel
    /\ ~ctxDone
    /\ ctxDone' = TRUE
    /\ wgAtCancel' = IF jobsWg > 0 THEN 1 ELSE 0
    /\ UNCHANGED <<cfg, input, visited, queue, jobsWg, doneClosed, runPc, seedIdx, runErr,
                   workers, robotsCache, enqueued, fetched, saved, depthOf, unitVars>>

(***************************************************************************)
(* The requests of a crawl: what the environment may do to one of them.     *)
(* A request issued after ctx is cancelled fails in the transport.          *)
(***************************************************************************)
Exchanges(resp) ==
    { Exchange("ok", do, read, resp) :
        do \in (IF ctxDone THEN {"err"} ELSE IF input.mayFail THEN {"ok", "err"} ELSE {"ok"}),
        read \in (IF input.mayFail THEN {"ok", "err"} ELSE {"ok"}) }

(***************************************************************************)
(* RobotsTxtAuditor.                                                        *)
(***************************************************************************)
\* getOrFetch that stores nothing when the fetch or the parse failed
getOrFetch_NoSentinel(key, ret) ==
    IF ret.err # "nil" THEN "miss"
    ELSE IF ret.result.Error # "" THEN "miss"
    ELSE IF ret.result.StatusCode >= 400 THEN "miss"
    ELSE IF ~RobotsTxt(key).parses THEN "miss"
    ELSE "parsed"

\* what getOrFetch stores for a key after its fetch returned ret
getOrFetch(key, ret) ==
    IF ret.err # "nil" THEN "nil"
    ELSE IF ret.result.Error # "" THEN "nil"
    ELSE IF ret.result.StatusCode >= 400 THEN "nil"
    ELSE IF ~RobotsTxt(key).parses THEN "nil"
    ELSE "parsed"

\* data.FindGroup(userAgent).Test(path)
GroupTest(key, userAgent, path) ==
    IF userAgent = "BadBot" /\ RobotsTxt(key).badBot
    THEN FALSE
    ELSE path \notin RobotsTxt(key).disallow

\* an auditor that never denies
IsAllowed_AllowAll(data, rawURL, userAgent) == TRUE

\* an auditor that tests the host's groups also when no robots.txt was obtained
IsAllowed_FailClosed(data, rawURL, userAgent) ==
    GroupTest(HostKey(Parse(rawURL)), userAgent, Parse(rawURL).Path)

\* IsAllowed, given what the cache holds for the URL's key
IsAllowed(data, rawURL, userAgent) ==
    LET u == Parse(rawURL)
    IN  \/ data = "nil"
        \/ GroupTest(HostKey(u), userAgent, u.Path)

(***************************************************************************)
(* The workers of Run and Crawler.processJob.                               *)
(***************************************************************************)
\* a worker: where it is, its job, the links of the page and the one it is at; for
\* the job at hand, the Error of the fetched result and what Save returned ("none":
\* not called), and whether a send of a child was given up for ctx.Done()
Worker(pc, j, links, i) ==
    [pc |-> pc, job |-> j, links |-> links, i |-> i,
     fetchErr |-> "none", saveErr |-> "none", gaveUp |-> FALSE]

\* processJob returned: the worker goes on to jobsWg.Done()
Returned(w) == [workers EXCEPT ![w].pc = "jobDone", ![w].links = << >>, ![w].i = 0]

\* select { case <-gCtx.Done(): return gCtx.Err(); case j := <-queue: ... }
Worker_Select(w) ==
    /\ workers[w].pc = "select"
    /\ \/ /\ ctxDone
          /\ workers' = [workers EXCEPT ![w].pc = "exited"]
          /\ queue' = queue
       \/ /\ queue # << >>
          /\ workers' = [workers EXCEPT
                 ![w] = Worker(IF cfg.RespectRobots THEN "robots" ELSE "limiter",
                               Head(queue), << >>, 0)]
          /\ queue' = Tail(queue)
    /\ UNCHANGED <<cfg, input, visited, jobsWg, doneClosed, ctxDone, runPc, seedIdx, runErr,
                   robotsCache, enqueued, fetched, saved, depthOf, wgAtCancel, unitVars>>

\* after the robots gate: fetch, or skip the job
Gate(w, data) ==
    IF IsAllowed(data, workers[w].job.URL, cfg.UserAgent)
    THEN [workers EXCEPT ![w].pc = "limiter"]
    ELSE Returned(w)

\* IsAllowed, cache hit under the read lock; a miss goes on to the write lock
ProcessJob_Robots(w) ==
    /\ workers[w].pc = "robots"
    /\ LET key == HostKey(Parse(workers[w].job.URL))
       IN  workers' = IF robotsCache[key] # "miss"
                      THEN Gate(w, robotsCache[key])
                      ELSE [workers EXCEPT ![w].pc = "robotsMiss"]
    /\ UNCHANGED <<cfg, input, visited, queue, jobsWg, doneClosed, ctxDone, runPc, seedIdx,
                   runErr, robotsCache, enqueued, fetched, saved, depthOf, wgAtCancel, unitVars>>

\* getOrFetch under the write lock: second look, fetch of robots.txt, store
ProcessJob_RobotsFetch(w) ==
    /\ workers[w].pc = "robotsMiss"
    /\ LET key == HostKey(Parse(workers[w].job.URL))
       IN  IF robotsCache[key] # "miss"
           THEN /\ workers' = Gate(w, robotsCache[key])
                /\ robotsCache' = robotsCache
           ELSE \E x \in Exchanges(RobotsResponse(key)) :
                   LET data == getOrFetch(key, Fetch(FALSE, RobotsURL(key), x))
                   IN  /\ robotsCache' = [robotsCache EXCEPT ![key] = data]
                       /\ workers' = Gate(w, data)
    /\ UNCHANGED <<cfg, input, visited, queue, jobsWg, doneClosed, ctxDone, runPc, seedIdx,
                   runErr, enqueued, fetched, saved, depthOf, wgAtCancel, unitVars>>

\* c.limiter.Wait(ctx): no ticker when rps <= 0; Run's deferred Stop ends the ticks
ProcessJob_Wait(w) ==
    /\ workers[w].pc = "limiter"
    /\ \/ /\ cfg.RequestsPerSecond <= 0 \/ runPc # "returned"
          /\ workers' = [workers EXCEPT ![w].pc = "fetch"]
       \/ /\ cfg.RequestsPerSecond > 0
          /\ ctxDone
          /\ workers' = Returned(w)
    /\ UNCHANGED <<cfg, input, visited, queue, jobsWg, doneClosed, ctxDone, runPc, seedIdx,
                   runErr, robotsCache, enqueued, fetched, saved, depthOf, wgAtCancel, unitVars>>

\* the depth limit compared with > instead of >=
AfterFetch_LimitOffByOne(w, ret) ==
    LET j == workers[w].job
        result == ret.result
    IN  IF j.Depth > cfg.MaxDepth \/ result = NilResult \/ result.Error # ""
        THEN [workers EXCEPT ![w].pc = "jobDone", ![w].links = << >>, ![w].i = 0]
        ELSE IF IsHTML(result.Headers.ContentType) /\ result.Links # << >>
        THEN [workers EXCEPT ![w].pc = "shouldVisit", ![w].links = result.Links, ![w].i = 1]
        ELSE [workers EXCEPT ![w].pc = "jobDone", ![w].links = << >>, ![w].i = 0]

\* where processJob goes after Fetch, Save and RecordScrape
AfterFetch(w, ret) ==
    LET j == workers[w].job
        result == ret.result
    IN  IF j.Depth >= cfg.MaxDepth \/ result = NilResult \/ result.Error # ""
        THEN Returned(w)
        ELSE IF IsHTML(result.Headers.ContentType)
                /\ extractLinks(j.URL, result) # << >>
        THEN [workers EXCEPT ![w].pc = "shouldVisit",
                             ![w].links = extractLinks(j.URL, result), ![w].i = 1]
        ELSE Returned(w)

\* what Backend.Save may return
SaveErrors == IF input.mayFail THEN {"nil", "err"} ELSE {"nil"}

\* a failed Save ends processJob
AfterSave_AbortOnError(ws, w, ret, sv) ==
    IF sv = "err"
    THEN [Returned(w) EXCEPT ![w].fetchErr = ret.result.Error, ![w].saveErr = sv]
    ELSE [ws EXCEPT ![w].fetchErr = ret.result.Error, ![w].saveErr = sv]

\* if err := c.cfg.Backend.Save(ctx, result); err != nil { c.logger.Error(...) }
AfterSave(ws, w, ret, sv) ==
    [ws EXCEPT ![w].fetchErr = ret.result.Error, ![w].saveErr = sv]

\* Fetch, Backend.Save, metrics, and the decision to extract links
ProcessJob_Fetch(w) ==
    /\ workers[w].pc = "fetch"
    /\ LET j == workers[w].job
       IN  \E x \in Exchanges(Response(Canon(j.URL))), sv \in SaveErrors :
              LET ret == Fetch(FALSE, j.URL, x)
              IN  /\ fetched' = Count(fetched, Canon(j.URL))
                  /\ IF cfg.Backend /\ ret.result # NilResult
                     THEN /\ saved' = Count(saved, Canon(j.URL))
                          /\ workers' = AfterSave(AfterFetch(w, ret), w, ret, sv)
                     ELSE /\ saved' = saved
                          /\ workers' = AfterSave(AfterFetch(w, ret), w, ret, "none")
    /\ UNCHANGED <<cfg, input, visited, queue, jobsWg, doneClosed, ctxDone, runPc, seedIdx,
                   runErr, robotsCache, enqueued, depthOf, wgAtCancel, unitVars>>

\* the link loop moves to the next link, or processJob returns
NextLink(w) ==
    IF workers[w].i < Len(workers[w].links)
    THEN [workers EXCEPT ![w].pc = "shouldVisit", ![w].i = @ + 1]
    ELSE Returned(w)

\* if c.shouldVisit(link)
ProcessJob_ShouldVisit(w) ==
    /\ workers[w].pc = "shouldVisit"
    /\ workers' = IF shouldVisit(workers[w].links[workers[w].i])
                  THEN [workers EXCEPT ![w].pc = "markVisited"]
                  ELSE NextLink(w)
    /\ UNCHANGED <<cfg, input, visited, queue, jobsWg, doneClosed, ctxDone, runPc, seedIdx,
                   runErr, robotsCache, enqueued, fetched, saved, depthOf, wgAtCancel, unitVars>>

\* c.markVisited(link); wg.Add(1)
ProcessJob_MarkVisited(w) ==
    /\ workers[w].pc = "markVisited"
    /\ visited' = markVisited(workers[w].links[workers[w].i])
    /\ jobsWg' = jobsWg + 1
    /\ workers' = [workers EXCEPT ![w].pc = "send"]
    /\ UNCHANGED <<cfg, input, queue, doneClosed, ctxDone, runPc, seedIdx, runErr,
                   robotsCache, enqueued, fetched, saved, depthOf, wgAtCancel, unitVars>>

\* the select of the link loop with a default case that drops the child
ProcessJob_Send_DropWhenFull(w) ==
    /\ workers[w].pc = "send"
    /\ LET link == workers[w].links[workers[w].i]
           depth == workers[w].job.Depth + 1
       IN  \/ /\ Len(queue) < Capacity
              /\ queue' = Append(queue, job(link, depth))
              /\ enqueued' = Count(enqueued, Canon(link))
              /\ depthOf' = [depthOf EXCEPT ![Canon(link)] = @ \cup {depth}]
              /\ jobsWg' = jobsWg
              /\ workers' = NextLink(w)
           \/ /\ ctxDone \/ Len(queue) >= Capacity
              /\ jobsWg' = jobsWg - 1
              /\ workers' = [NextLink(w) EXCEPT ![w].gaveUp = ctxDone]
              /\ UNCHANGED <<queue, enqueued, depthOf>>
    /\ UNCHANGED <<cfg, input, visited, doneClosed, ctxDone, runPc, seedIdx, runErr,
                   robotsCache, fetched, saved, wgAtCancel, unitVars>>

\* select { case queue <- job{link, Depth+1}: case <-ctx.Done(): wg.Done() }
ProcessJob_Send(w) ==
    /\ workers[w].pc = "send"
    /\ LET link == workers[w].links[workers[w].i]
           depth == workers[w].job.Depth + 1
       IN  \/ /\ Len(queue) < Capacity
              /\ queue' = Append(queue, job(link, depth))
              /\ enqueued' = Count(enqueued, Canon(link))
              /\ depthOf' = [depthOf EXCEPT ![Canon(link)] = @ \cup {depth}]
              /\ jobsWg' = jobsWg
              /\ workers' = NextLink(w)
           \/ /\ ctxDone
              /\ jobsWg' = jobsWg - 1
              /\ workers' = [NextLink(w) EXCEPT ![w].gaveUp = TRUE]
              /\ UNCHANGED <<queue, enqueued, depthOf>>
    /\ UNCHANGED <<cfg, input, visited, doneClosed, ctxDone, runPc, seedIdx, runErr,
                   robotsCache, fetched, saved, wgAtCancel, unitVars>>

\* jobsWg.Done() after processJob
Worker_Done(w) ==
    /\ workers[w].pc = "jobDone"
    /\ jobsWg' = jobsWg - 1
    /\ workers' = [workers EXCEPT ![w] = Worker("select", NoJob, << >>, 0)]
    /\ UNCHANGED <<cfg, input, visited, queue, doneClosed, ctxDone, runPc, seedIdx, runErr,
                   robotsCache, enqueued, fetched, saved, depthOf, wgAtCancel, unitVars>>

(***************************************************************************)
(* The crawl.                                                               *)
(***************************************************************************)
\* the pool's last operation; idx is the entry Next returned (0: none), since and
\* failures are that entry's history and failure counter when it was returned
PoolOp(op, before, now, arg, url, idx, examined, err, since, failures) ==
    [op |-> op, before |-> before, now |-> now, arg |-> arg, url |-> url, idx |-> idx,
     examined |-> examined, err |-> err, since |-> since, failures |-> failures]

InitPoolIdle ==
    /\ pool = NewPool(PoolConfig(0, 0))
    /\ poolClock = 0
    /\ poolOut = PoolOp("none", NewPool(PoolConfig(0, 0)), 0, << >>, NilProxyURL, 0, 0,
                        "nil", -1, 0)
    /\ poolHist = [streak |-> << >>, since |-> << >>, served |-> << >>, calls |-> 0]

\* a goroutine and its Wait call: where it is, when its jitter sleep ends, whether ctx
\* was cancelled and a tick buffered when Wait was called, what Wait returned ("none":
\* no call has returned), whether ctx was cancelled while the call was waiting
WaitCall(pc, wake, ctxAtCall, tickAtCall, err, cancelledInWait) ==
    [pc |-> pc, wake |-> wake, ctxAtCall |-> ctxAtCall, tickAtCall |-> tickAtCall,
     err |-> err, cancelledInWait |-> cancelledInWait]

InitLimIdle ==
    /\ lim = NewLimiter(0, 0)
    /\ limClock = 0
    /\ limTick = FALSE
    /\ limCtxDone = FALSE
    /\ limCallers = [c \in 1..1 |-> WaitCall("idle", 0, FALSE, FALSE, "none", FALSE)]
    /\ limHist = [returns |-> << >>, calls |-> 0, fired |-> 0]

InitAnalyzeIdle ==
    /\ anIn = [res |-> NewResult(""), detectors |-> << >>]
    /\ anOut = [once |-> NewResult(""), twice |-> NewResult("")]
    /\ anCalls = 0

\* a goroutine and its IsAllowed call
AuditCall(pc, url, ua, allowed, err) ==
    [pc |-> pc, url |-> url, ua |-> ua, allowed |-> allowed, err |-> err]

InitAuditIdle ==
    /\ audCache = [k \in HostKeys |-> "miss"]
    /\ audCallers = [c \in 1..1 |-> AuditCall("idle", "", "", FALSE, "none")]
    /\ audHist = [keys |-> [k \in HostKeys |-> [fetches |-> 0, outcome |-> "none"]],
                  calls |-> 0]

\* NewFetcher: httpclient.New copies cfg.MaxRedirects into the CheckRedirect it installs
NewFetcher(maxRedirects) ==
    [config |-> [MaxRedirects |-> maxRedirects],
     client |-> [MaxRedirects |-> maxRedirects],
     auditorPc |-> "idle", originalRedirects |-> 0]

\* a fetch through the shared Fetcher: "page" or "robots", the chain the server
\* answers with, config.MaxRedirects while the request ran, what client.Do returned,
\* what getOrFetch stored, and the fetches made so far
SharedFetch(kind, chain, during, ret, data, calls) ==
    [kind |-> kind, chain |-> chain, during |-> during, ret |-> ret, data |-> data,
     calls |-> calls]

InitClientIdle ==
    /\ cliIn = [MaxRedirects |-> 0, chain |-> << >>]
    /\ cliOut = [status |-> 0, err |-> "none", requests |-> 0]
    /\ cliCalls = 0
    /\ fetcher = NewFetcher(0)
    /\ rfOut = SharedFetch("none", << >>, 0, [status |-> 0, err |-> "none", requests |-> 0],
                            "miss", 0)

\* a goroutine and its GetSequential call: where it is, the position of its
\* counter.Add among all of them, the idx it computed, the value it returned
UACall(pc, k, idx, ua) == [pc |-> pc, k |-> k, idx |-> idx, ua |-> ua]

InitUAIdle ==
    /\ uaPool = [uas |-> << >>, counter |-> 0]
    /\ uaCallers = [c \in 1..1 |-> UACall("idle", 0, 0, "")]
    /\ uaHist = << >>

\* storage.Filter; Since = 0 is the nil pointer, DetectedBot "any" the nil pointer
Filter(url, detectedBot, since, limit, offset) ==
    [URL |-> url, DetectedBot |-> detectedBot, Since |-> since, Limit |-> limit,
     Offset |-> offset]

InitStoreIdle ==
    /\ stRows = << >>
    /\ stOut = [filter |-> Filter("", "any", 0, 0, 0), rows |-> << >>, results |-> << >>,
                queried |-> FALSE]
    /\ stCalls = 0

InitMatchIdle ==
    /\ mtIn = [content |-> << >>, terms |-> << >>, searched |-> FALSE]
    /\ mtOut = [plain |-> << >>, optimized |-> << >>]

InitLibIdle == InitClientIdle /\ InitUAIdle /\ InitStoreIdle /\ InitMatchIdle

InitUnitsIdle ==
    InitPoolIdle /\ InitLimIdle /\ InitAnalyzeIdle /\ InitAuditIdle /\ InitLibIdle

\* what a Fetch did with its proxy pool: the proxy Next gave it, the Mark calls it
\* made, the proxy it put into the request's context, whether client.Do was called
ProxyUse(called, proxy, marks, attached, dispatched) ==
    [called |-> called, proxy |-> proxy, marks |-> marks, attached |-> attached,
     dispatched |-> dispatched]

InitFetchIdle ==
    /\ fetchIn = [hasLimiter |-> FALSE, targetURL |-> "", x |-> "none"]
    /\ fetchOut = Return(NilResult, "none")
    /\ fetchCalls = 0
    /\ pfOut = ProxyUse(FALSE, NilProxyURL, << >>, NilProxyURL, FALSE)

\* one goroutine more than configured
WorkerIDs_OneMore(c) == 1..(c.Concurrency + 1)

\* for i := 0; i < c.cfg.Concurrency; i++ { g.Go(...) }
WorkerIDs(c) == 1..c.Concurrency

Init ==
    /\ \E c \in Crawls :
          /\ cfg = NewCrawler(c.cfg)
          /\ input = [seeds |-> c.seeds, mayCancel |-> c.mayCancel, mayFail |-> c.mayFail]
          /\ workers = [w \in WorkerIDs(NewCrawler(c.cfg)) |->
                            Worker("init", NoJob, << >>, 0)]
    /\ visited = {}
    /\ queue = << >>
    /\ jobsWg = 0
    /\ doneClosed = FALSE
    /\ ctxDone = FALSE
    /\ runPc = "seed"
    /\ seedIdx = 1
    /\ runErr = "none"
    /\ robotsCache = [k \in HostKeys |-> "miss"]
    /\ enqueued = [c \in CanonURLs |-> 0]
    /\ fetched = [c \in CanonURLs |-> 0]
    /\ saved = [c \in CanonURLs |-> 0]
    /\ depthOf = [c \in CanonURLs |-> {}]
    /\ wgAtCancel = -1
    /\ InitFetchIdle
    /\ InitUnitsIdle

Next ==
    \/ Run_Seed
    \/ Run_Start
    \/ Run_CloseDone
    \/ Run_Select
    \/ Cancel
    \/ \E w \in DOMAIN workers : Worker_Select(w)
    \/ \E w \in DOMAIN workers : ProcessJob_Robots(w)
    \/ \E w \in DOMAIN workers : ProcessJob_RobotsFetch(w)
    \/ \E w \in DOMAIN workers : ProcessJob_Wait(w)
    \/ \E w \in DOMAIN workers : ProcessJob_Fetch(w)
    \/ \E w \in DOMAIN workers : ProcessJob_ShouldVisit(w)
    \/ \E w \in DOMAIN workers : ProcessJob_MarkVisited(w)
    \/ \E w \in DOMAIN workers : ProcessJob_Send(w)
    \/ \E w \in DOMAIN workers : Worker_Done(w)

Spec == Init /\ [][Next]_vars

(***************************************************************************)
(* The crawl under fair scheduling: every goroutine of Run that can take a  *)
(* step eventually takes one.  Cancel is the caller's choice and not fair.  *)
(***************************************************************************)
WorkerStep(w) ==
    /\ w \in DOMAIN workers
    /\ \/ Worker_Select(w)
       \/ ProcessJob_Robots(w)
       \/ ProcessJob_RobotsFetch(w)
       \/ ProcessJob_Wait(w)
       \/ ProcessJob_Fetch(w)
       \/ ProcessJob_ShouldVisit(w)
       \/ ProcessJob_MarkVisited(w)
       \/ ProcessJob_Send(w)
       \/ Worker_Done(w)

Fairness ==
    /\ WF_vars(Run_Seed)
    /\ WF_vars(Run_Start)
    /\ WF_vars(Run_CloseDone)
    /\ WF_vars(Run_Select)
    /\ \A w \in 1..(MaxConcurrency + DefaultConcurrency) : WF_vars(WorkerStep(w))

InitLive ==
    /\ Init
    /\ \E c \in LiveCrawls :
          /\ cfg = NewCrawler(c.cfg)
          /\ input = [seeds |-> c.seeds, mayCancel |-> c.mayCancel, mayFail |-> c.mayFail]

FairSpec == InitLive /\ [][Next]_vars /\ Fairness

(***************************************************************************)
(* The fetcher alone: Fetch called on every kind of target, limiter,        *)
(* transport outcome and response.                                          *)
(***************************************************************************)
Responses ==
    { [status |-> st,
       headers |-> [NoHeaders EXCEPT !.ContentType = "text/html", !.Server = sv],
       body |-> b, links |-> << >>] :
        st \in {StatusOK, StatusForbidden, StatusServiceUnavailable},
        sv \in {"nginx", "Cloudflare", "AkamaiGHost"},
        b \in {{}, {"datadome"}} }

Fetch_Call ==
    /\ fetchCalls < MaxFetches
    /\ anCalls = 0
    /\ \E hasLimiter \in BOOLEAN, targetURL \in {"s", "x#f", "mail", "bad"},
          limiter \in {"ok", "cancelled"}, do \in {"ok", "err"}, read \in {"ok", "err"},
          resp \in Responses :
          LET x == Exchange(limiter, do, read, resp)
          IN  /\ fetchIn' = [hasLimiter |-> hasLimiter, targetURL |-> targetURL, x |-> x]
              /\ fetchOut' = Fetch(hasLimiter, targetURL, x)
    /\ fetchCalls' = fetchCalls + 1
    /\ pfOut' = pfOut
    /\ UNCHANGED <<crawlVars, libVars, poolVars, limVars, anVars, audVars>>

\* no crawl: the state of a crawler that is never run
InitCrawlIdle ==
    /\ cfg = NewCrawler(CrawlConfig(0, 1, << >>, FALSE, 0, 0))
    /\ input = [seeds |-> << >>, mayCancel |-> FALSE, mayFail |-> FALSE]
    /\ workers = [w \in 1..1 |-> Worker("init", NoJob, << >>, 0)]
    /\ visited = {}
    /\ queue = << >>
    /\ jobsWg = 0
    /\ doneClosed = FALSE
    /\ ctxDone = FALSE
    /\ runPc = "seed"
    /\ seedIdx = 1
    /\ runErr = "none"
    /\ robotsCache = [k \in HostKeys |-> "miss"]
    /\ enqueued = [c \in CanonURLs |-> 0]
    /\ fetched = [c \in CanonURLs |-> 0]
    /\ saved = [c \in CanonURLs |-> 0]
    /\ depthOf = [c \in CanonURLs |-> {}]
    /\ wgAtCancel = -1

InitFetch ==
    /\ InitCrawlIdle
    /\ InitFetchIdle
    /\ InitUnitsIdle

NextFetch == Fetch_Call

SpecFetch == InitFetch /\ [][NextFetch]_vars

(***************************************************************************)
(* The proxy pool alone: Add, Next, MarkSuccess and MarkFailure called in   *)
(* any order while time passes.                                             *)
(***************************************************************************)
PoolConfigs == {PoolConfig(1, 1), PoolConfig(2, 1), PoolConfig(0, 0)}

\* the argument lists of Add: one URL of each scheme, a URL without scheme, the same
\* URL twice, a URL that does not parse after one that does
AddArguments ==
    {<<"https://b">>, <<"ftp://d">>, <<"%">>,
     <<"a", "http://a">>, <<"a", "socks5://c">>, <<"http://a", "%">>}

\* the last n elements of a sequence
LastN(s, n) == IF Len(s) <= n THEN s ELSE SubSeq(s, Len(s) - n + 1, Len(s))

Pool_Add ==
    /\ poolHist.calls < MaxPoolCalls
    /\ \E rawURLs \in AddArguments :
          /\ Len(pool.proxies) + Len(rawURLs) <= MaxProxies
          /\ LET r == Add(pool, rawURLs)
                 added == Len(r.pool.proxies) - Len(pool.proxies)
             IN  /\ pool' = r.pool
                 /\ poolOut' = PoolOp("Add", NewPool(PoolConfig(0, 0)), 0, rawURLs,
                                      NilProxyURL, 0, 0, r.err, -1, 0)
                 /\ poolHist' = [streak |-> poolHist.streak \o [j \in 1..added |-> 0],
                                 since |-> poolHist.since \o [j \in 1..added |-> -1],
                                 served |-> << >>,
                                 calls |-> poolHist.calls + 1]
    /\ UNCHANGED <<poolClock, crawlVars, libVars, fetchVars, limVars, anVars, audVars>>

Pool_Next ==
    /\ poolHist.calls < MaxPoolCalls
    /\ LET r == PoolNext(pool, poolClock)
           owed == r.idx > 0 /\ poolHist.since[r.idx] >= 0
           allHealthy == \A i \in 1..Len(pool.proxies) : ~pool.proxies[i].Disabled
       IN  /\ pool' = r.pool
           /\ poolOut' = PoolOp("Next", pool, poolClock, << >>, r.url, r.idx, r.examined,
                                "nil",
                                IF r.idx > 0 THEN poolHist.since[r.idx] ELSE -1,
                                IF r.idx > 0 THEN r.pool.proxies[r.idx].Failures ELSE 0)
           /\ poolHist' =
                 [streak |-> IF owed THEN [poolHist.streak EXCEPT ![r.idx] = 0]
                             ELSE poolHist.streak,
                  since |-> IF owed THEN [poolHist.since EXCEPT ![r.idx] = -1]
                            ELSE poolHist.since,
                  served |-> IF allHealthy /\ r.idx > 0
                             THEN LastN(Append(poolHist.served, r.idx), Len(pool.proxies))
                             ELSE << >>,
                  calls |-> poolHist.calls + 1]
    /\ UNCHANGED <<poolClock, crawlVars, libVars, fetchVars, limVars, anVars, audVars>>

Pool_MarkSuccess ==
    /\ poolHist.calls < MaxPoolCalls
    /\ \E u \in ProxyURLs \cup {NilProxyURL} :
          LET i == FindProxy(pool, u)
              r == MarkSuccess(pool, u)
          IN  /\ pool' = r.pool
              /\ poolOut' = PoolOp("MarkSuccess", NewPool(PoolConfig(0, 0)), 0, << >>,
                                   NilProxyURL, 0, 0, r.err, -1, 0)
              /\ poolHist' = IF r.err = "nil"
                             THEN [poolHist EXCEPT !.streak[i] = 0, !.calls = @ + 1]
                             ELSE [poolHist EXCEPT !.calls = @ + 1]
    /\ UNCHANGED <<poolClock, crawlVars, libVars, fetchVars, limVars, anVars, audVars>>

Pool_MarkFailure ==
    /\ poolHist.calls < MaxPoolCalls
    /\ \E u \in ProxyURLs \cup {NilProxyURL} :
          LET i == FindProxy(pool, u)
              r == MarkFailure(pool, u, poolClock)
          IN  /\ pool' = r.pool
              /\ poolOut' = PoolOp("MarkFailure", NewPool(PoolConfig(0, 0)), 0, << >>,
                                   NilProxyURL, 0, 0, r.err, -1, 0)
              /\ poolHist' =
                    IF r.err # "nil" THEN [poolHist EXCEPT !.calls = @ + 1]
                    ELSE [poolHist EXCEPT
                            !.calls = @ + 1,
                            !.streak[i] = @ + 1,
                            !.since[i] = IF @ = -1 /\ poolHist.streak[i] + 1 >= pool.maxFailures
                                         THEN poolClock ELSE @]
    /\ UNCHANGED <<poolClock, crawlVars, libVars, fetchVars, limVars, anVars, audVars>>

\* time passes
Pool_Tick ==
    /\ poolClock < MaxPoolTime
    /\ poolClock' = poolClock + 1
    /\ UNCHANGED <<pool, poolOut, poolHist, crawlVars, libVars, fetchVars, limVars, anVars, audVars>>

InitPool ==
    /\ InitCrawlIdle
    /\ InitFetchIdle
    /\ InitLimIdle
    /\ InitAnalyzeIdle
    /\ InitAuditIdle
    /\ InitLibIdle
    /\ \E c \in PoolConfigs : pool = NewPool(c)
    /\ poolClock = 0
    /\ poolOut = PoolOp("none", NewPool(PoolConfig(0, 0)), 0, << >>, NilProxyURL, 0, 0,
                        "nil", -1, 0)
    /\ poolHist = [streak |-> << >>, since |-> << >>, served |-> << >>, calls |-> 0]

NextPool ==
    \/ Pool_Add
    \/ Pool_Next
    \/ Pool_MarkSuccess
    \/ Pool_MarkFailure
    \/ Pool_Tick

SpecPool == InitPool /\ [][NextPool]_vars

(***************************************************************************)
(* Fetcher.Fetch with FetchConfig.ProxyPool set.                            *)
(***************************************************************************)
ProxyFetchReturn(ret, p, use) == [ret |-> ret, pool |-> p, use |-> use]

\* Fetch: Limiter.Wait, ProxyPool.Next, NewRequestWithContext, the proxy put into the
\* request's context, client.Do, MarkFailure or MarkSuccess
ProxyFetch(p, now, hasLimiter, targetURL, x) ==
    LET ret == Fetch(hasLimiter, targetURL, x)
    IN  IF hasLimiter /\ x.limiter = "cancelled"
        THEN ProxyFetchReturn(ret, p, ProxyUse(TRUE, NilProxyURL, << >>, NilProxyURL, FALSE))
        ELSE
        LET nx == PoolNext(p, now)
            activeProxy == nx.url
            u == Parse(targetURL)
        IN  IF ~u.ok
            THEN ProxyFetchReturn(ret, nx.pool,
                                  ProxyUse(TRUE, activeProxy, << >>, NilProxyURL, FALSE))
            ELSE IF x.do = "err" \/ u.Scheme \notin {"http", "https"}
            THEN IF activeProxy # NilProxyURL
                 THEN ProxyFetchReturn(ret, MarkFailure(nx.pool, activeProxy, now).pool,
                          ProxyUse(TRUE, activeProxy, <<"MarkFailure">>, activeProxy, TRUE))
                 ELSE ProxyFetchReturn(ret, nx.pool,
                          ProxyUse(TRUE, activeProxy, << >>, NilProxyURL, TRUE))
            ELSE IF activeProxy # NilProxyURL
                 THEN ProxyFetchReturn(ret, MarkSuccess(nx.pool, activeProxy).pool,
                          ProxyUse(TRUE, activeProxy, <<"MarkSuccess">>, activeProxy, TRUE))
                 ELSE ProxyFetchReturn(ret, nx.pool,
                          ProxyUse(TRUE, activeProxy, << >>, NilProxyURL, TRUE))

\* the pools a fetcher is configured with
FetcherPools ==
    { Add(NewPool(PoolConfig(mf, 1)), raw).pool :
        mf \in 1..2, raw \in {<< >>, <<"http://a">>, <<"http://a", "https://b">>} }

Fetch_ViaPool ==
    /\ fetchCalls < MaxProxyFetches
    /\ \E hasLimiter \in BOOLEAN, targetURL \in {"s", "mail", "bad"},
          limiter \in {"ok", "cancelled"}, do \in {"ok", "err"}, read \in {"ok", "err"} :
          LET x == Exchange(limiter, do, read, Response(Canon("s")))
              r == ProxyFetch(pool, poolClock, hasLimiter, targetURL, x)
          IN  /\ fetchIn' = [hasLimiter |-> hasLimiter, targetURL |-> targetURL, x |-> x]
              /\ fetchOut' = r.ret
              /\ pfOut' = r.use
              /\ pool' = r.pool
    /\ fetchCalls' = fetchCalls + 1
    /\ UNCHANGED <<poolClock, poolOut, poolHist, crawlVars, libVars, limVars, anVars, audVars>>

InitProxyFetch ==
    /\ InitCrawlIdle
    /\ InitFetchIdle
    /\ InitLimIdle
    /\ InitAnalyzeIdle
    /\ InitAuditIdle
    /\ InitLibIdle
    /\ \E p \in FetcherPools : pool = p
    /\ poolClock = 0
    /\ poolOut = PoolOp("none", NewPool(PoolConfig(0, 0)), 0, << >>, NilProxyURL, 0, 0,
                        "nil", -1, 0)
    /\ poolHist = [streak |-> << >>, since |-> << >>, served |-> << >>, calls |-> 0]

NextProxyFetch ==
    \/ Fetch_ViaPool
    \/ Pool_Tick

SpecProxyFetch == InitProxyFetch /\ [][NextProxyFetch]_vars


(***************************************************************************)
(* The limiter alone: goroutines calling Wait on one limiter and one ctx    *)
(* while time passes, the ticker fires, ctx is cancelled, Stop is called.   *)
(* The ticker's channel holds one tick; a tick that finds it full is lost.  *)
(* A tick or a cancellation that finds goroutines blocked in Wait's select  *)
(* wakes them at once; a select entered with several cases ready takes any  *)
(* of them.                                                                 *)
(***************************************************************************)
LimiterConfigs == {<<1, 0>>, <<2, 0>>, <<1, 1>>, <<0, 1>>}

\* Wait returns err to goroutine c
WaitReturns(callers, c, err, cancelledInWait) ==
    [callers EXCEPT ![c].pc = "idle", ![c].wake = 0, ![c].err = err,
                    ![c].cancelledInWait = cancelledInWait]

\* the goroutines after c received a tick at a time ctx was (or was not) cancelled:
\* no jitter sleep, or the second select of Wait
AfterTick(callers, c, d) ==
    IF d <= 0 THEN WaitReturns(callers, c, "nil", FALSE)
    ELSE IF limCtxDone THEN WaitReturns(callers, c, "cancelled", FALSE)
    ELSE [callers EXCEPT ![c].pc = "jitter", ![c].wake = limClock + d]

\* the times at which Wait returned nil, after a step of goroutine c that leads to callers
NilReturns(callers, c) ==
    IF callers[c].pc = "idle" /\ callers[c].err = "nil"
    THEN Append(limHist.returns, limClock)
    ELSE limHist.returns

\* the ticker is due to fire at the present time
TickDue ==
    /\ lim.hasTicker
    /\ ~lim.stopped
    /\ limClock > 0
    /\ limClock % lim.interval = 0
    /\ limHist.fired < limClock

\* a Wait that takes the buffered tick and leaves it in the channel
Lim_Wait_TickStays(c) ==
    /\ limCallers[c].pc = "idle"
    /\ limHist.calls < MaxWaits
    /\ LET called == [limCallers EXCEPT
                         ![c] = WaitCall("blocked", 0, limCtxDone, limTick, "none", FALSE)]
       IN  IF ~lim.hasTicker
           THEN /\ limCallers' = WaitReturns(called, c, "nil", FALSE)
                /\ limHist' = [limHist EXCEPT !.calls = @ + 1]
                /\ limTick' = limTick
           ELSE \/ /\ limCtxDone
                   /\ limCallers' = WaitReturns(called, c, "cancelled", FALSE)
                   /\ limHist' = [limHist EXCEPT !.calls = @ + 1]
                   /\ limTick' = limTick
                \/ /\ limTick
                   /\ \E d \in JitterDurations(lim) :
                         /\ limCallers' = AfterTick(called, c, d)
                         /\ limHist' = [limHist EXCEPT
                                           !.calls = @ + 1,
                                           !.returns = NilReturns(AfterTick(called, c, d), c)]
                   /\ limTick' = limTick
                \/ /\ ~limCtxDone /\ ~limTick
                   /\ limCallers' = called
                   /\ limHist' = [limHist EXCEPT !.calls = @ + 1]
                   /\ limTick' = limTick
    /\ UNCHANGED <<lim, limClock, limCtxDone, crawlVars, libVars, fetchVars, poolVars, anVars, audVars>>

\* Wait up to its first select
Lim_Wait(c) ==
    /\ limCallers[c].pc = "idle"
    /\ limHist.calls < MaxWaits
    /\ LET called == [limCallers EXCEPT
                         ![c] = WaitCall("blocked", 0, limCtxDone, limTick, "none", FALSE)]
       IN  IF ~lim.hasTicker
           THEN /\ limCallers' = WaitReturns(called, c, "nil", FALSE)
                /\ limHist' = [limHist EXCEPT !.calls = @ + 1]
                /\ limTick' = limTick
           ELSE \/ /\ limCtxDone
                   /\ limCallers' = WaitReturns(called, c, "cancelled", FALSE)
                   /\ limHist' = [limHist EXCEPT !.calls = @ + 1]
                   /\ limTick' = limTick
                \/ /\ limTick
                   /\ \E d \in JitterDurations(lim) :
                         /\ limCallers' = AfterTick(called, c, d)
                         /\ limHist' = [limHist EXCEPT
                                           !.calls = @ + 1,
                                           !.returns = NilReturns(AfterTick(called, c, d), c)]
                   /\ limTick' = FALSE
                \/ /\ ~limCtxDone /\ ~limTick
                   /\ limCallers' = called
                   /\ limHist' = [limHist EXCEPT !.calls = @ + 1]
                   /\ limTick' = limTick
    /\ UNCHANGED <<lim, limClock, limCtxDone, crawlVars, libVars, fetchVars, poolVars, anVars, audVars>>

\* the ticker fires: a goroutine blocked in Wait receives the tick, or it is buffered
Lim_Fire ==
    /\ TickDue
    /\ IF \E c \in DOMAIN limCallers : limCallers[c].pc = "blocked"
       THEN \E c \in DOMAIN limCallers, d \in JitterDurations(lim) :
               /\ limCallers[c].pc = "blocked"
               /\ limCallers' = AfterTick(limCallers, c, d)
               /\ limHist' = [limHist EXCEPT
                                 !.fired = limClock,
                                 !.returns = NilReturns(AfterTick(limCallers, c, d), c)]
               /\ limTick' = limTick
       ELSE /\ limTick' = TRUE
            /\ limHist' = [limHist EXCEPT !.fired = limClock]
            /\ limCallers' = limCallers
    /\ UNCHANGED <<lim, limClock, limCtxDone, crawlVars, libVars, fetchVars, poolVars, anVars, audVars>>

\* the jitter sleep of a Wait call is over
Lim_Wake(c) ==
    /\ limCallers[c].pc = "jitter"
    /\ limCallers[c].wake <= limClock
    /\ limCallers' = WaitReturns(limCallers, c, "nil", FALSE)
    /\ limHist' = [limHist EXCEPT
                      !.returns = NilReturns(WaitReturns(limCallers, c, "nil", FALSE), c)]
    /\ UNCHANGED <<lim, limClock, limTick, limCtxDone, crawlVars, libVars, fetchVars, poolVars,
                   anVars, audVars>>

\* ctx is cancelled: every Wait blocked in a select returns ctx.Err()
Lim_Cancel ==
    /\ ~limCtxDone
    /\ limCtxDone' = TRUE
    /\ limCallers' = [c \in DOMAIN limCallers |->
                         IF limCallers[c].pc \in {"blocked", "jitter"}
                         THEN [limCallers[c] EXCEPT !.pc = "idle", !.wake = 0,
                                                    !.err = "cancelled",
                                                    !.cancelledInWait = TRUE]
                         ELSE limCallers[c]]
    /\ UNCHANGED <<lim, limClock, limTick, limHist, crawlVars, libVars, fetchVars, poolVars,
                   anVars, audVars>>

\* Limiter.Stop
Lim_Stop ==
    /\ lim.hasTicker
    /\ ~lim.stopped
    /\ lim' = [lim EXCEPT !.stopped = TRUE]
    /\ UNCHANGED <<limClock, limTick, limCtxDone, limCallers, limHist, crawlVars, libVars, fetchVars,
                   poolVars, anVars, audVars>>

\* time passes, once the ticker has fired and the sleepers that are due have woken
Lim_Advance ==
    /\ limClock < MaxLimTime
    /\ ~TickDue
    /\ \A c \in DOMAIN limCallers :
          limCallers[c].pc = "jitter" => limCallers[c].wake > limClock
    /\ limClock' = limClock + 1
    /\ UNCHANGED <<lim, limTick, limCtxDone, limCallers, limHist, crawlVars, libVars, fetchVars,
                   poolVars, anVars, audVars>>

InitLimiter ==
    /\ InitCrawlIdle
    /\ InitFetchIdle
    /\ InitPoolIdle
    /\ InitAnalyzeIdle
    /\ InitAuditIdle
    /\ InitLibIdle
    /\ \E c \in LimiterConfigs : lim = NewLimiter(c[1], c[2])
    /\ limClock = 0
    /\ limTick = FALSE
    /\ limCtxDone = FALSE
    /\ \E n \in 1..MaxWaiters :
          limCallers = [c \in 1..n |-> WaitCall("idle", 0, FALSE, FALSE, "none", FALSE)]
    /\ limHist = [returns |-> << >>, calls |-> 0, fired |-> 0]

NextLimiter ==
    \/ \E c \in DOMAIN limCallers : Lim_Wait(c)
    \/ Lim_Fire
    \/ \E c \in DOMAIN limCallers : Lim_Wake(c)
    \/ Lim_Cancel
    \/ Lim_Stop
    \/ Lim_Advance

SpecLimiter == InitLimiter /\ [][NextLimiter]_vars


(***************************************************************************)
(* The challenge detector alone: Analyze called on results of every status, *)
(* header and body signature, with annotations left from before, and on the *)
(* results Fetch builds.                                                    *)
(***************************************************************************)
AnalyzeBodies ==
    {{}, {"cf-turnstile"}, {"Reference #"}, {"Reference #", "Access Denied"}, {"datadome"},
     {"px-captcha"}, {"cf-turnstile", "_pxBlock"}}

AnalyzeInputs ==
    { [NewResult("s") EXCEPT
          !.StatusCode = st,
          !.Headers = [NoHeaders EXCEPT !.Server = sv, !.XDataDome = h[1],
                                        !.XDataDomeResponse = h[2], !.XPxCaptcha = h[3]],
          !.Body = b,
          !.DetectedBot = old[1],
          !.DetectionSrc = old[2]] :
        st \in {StatusOK, StatusForbidden, StatusServiceUnavailable},
        sv \in {"nginx", "Cloudflare", "AkamaiGHost", "DataDome"},
        h \in {<<"", "", "">>, <<"1", "", "">>, <<"", "1", "">>, <<"", "", "1">>,
               <<"1", "", "1">>},
        b \in AnalyzeBodies,
        old \in {<<FALSE, "">>, <<TRUE, "Akamai">>, <<TRUE, "">>, <<FALSE, "Cloudflare">>} }

DetectorLists == {DefaultDetectors, << >>, <<"PerimeterX", "DataDome">>}

Analyze_Call ==
    /\ anCalls < MaxAnalyses
    /\ fetchCalls = 0
    /\ \E res \in AnalyzeInputs, detectors \in DetectorLists :
          /\ anIn' = [res |-> res, detectors |-> detectors]
          /\ anOut' = [once |-> Analyze(res, detectors),
                       twice |-> Analyze(Analyze(res, detectors), detectors)]
    /\ anCalls' = anCalls + 1
    /\ UNCHANGED <<crawlVars, libVars, fetchVars, poolVars, limVars, audVars>>

InitAnalyze ==
    /\ InitCrawlIdle
    /\ InitFetchIdle
    /\ InitUnitsIdle

NextAnalyze ==
    \/ Analyze_Call
    \/ Fetch_Call

SpecAnalyze == InitAnalyze /\ [][NextAnalyze]_vars


(***************************************************************************)
(* The robots auditor alone: goroutines call IsAllowed concurrently with    *)
(* URLs of several hosts and several user agents.  The write lock is held   *)
(* from the second look at the cache to the store, so that part is one      *)
(* step; the environment decides whether the robots.txt request fails.      *)
(***************************************************************************)
AuditURLs == {"s", "blk", "z", "sub", "ext", "near", "bad"}

UserAgents == {"", "GoodBot", "BadBot"}

AuditExchanges(resp) ==
    { Exchange("ok", do, read, resp) : do \in {"ok", "err"}, read \in {"ok", "err"} }

\* how the robots.txt request of a key ended
FetchOutcome(key, x) ==
    IF x.do = "err" \/ x.read = "err" THEN "transport"
    ELSE IF RobotsTxt(key).status >= 400 THEN "status"
    ELSE IF ~RobotsTxt(key).parses THEN "parseError"
    ELSE "parsed"

\* IsAllowed returns to its caller
AuditReturn(c, data) ==
    [audCallers EXCEPT ![c].pc = "idle",
                       ![c].allowed = IsAllowed(data, audCallers[c].url, audCallers[c].ua),
                       ![c].err = "nil"]

\* IsAllowed is called: url.Parse, and an unparsable URL returns at once
Aud_Call(c) ==
    /\ audCallers[c].pc = "idle"
    /\ audHist.calls < MaxAuditCalls
    /\ \E url \in AuditURLs, ua \in UserAgents :
          audCallers' = [audCallers EXCEPT ![c] =
              IF Parse(url).ok
              THEN AuditCall("rlock", url, ua, FALSE, "none")
              ELSE AuditCall("idle", url, ua, FALSE, "invalid url")]
    /\ audHist' = [audHist EXCEPT !.calls = @ + 1]
    /\ UNCHANGED <<audCache, crawlVars, libVars, fetchVars, poolVars, limVars, anVars>>

\* getOrFetch, the look at the cache under the read lock
Aud_ReadCache(c) ==
    /\ audCallers[c].pc = "rlock"
    /\ LET key == HostKey(Parse(audCallers[c].url))
       IN  audCallers' = IF audCache[key] # "miss"
                         THEN AuditReturn(c, audCache[key])
                         ELSE [audCallers EXCEPT ![c].pc = "lock"]
    /\ UNCHANGED <<audCache, audHist, crawlVars, libVars, fetchVars, poolVars, limVars, anVars>>

\* getOrFetch under the write lock: second look, fetch of robots.txt, store
Aud_Fetch(c) ==
    /\ audCallers[c].pc = "lock"
    /\ LET key == HostKey(Parse(audCallers[c].url))
       IN  IF audCache[key] # "miss"
           THEN /\ audCallers' = AuditReturn(c, audCache[key])
                /\ UNCHANGED <<audCache, audHist>>
           ELSE \E x \in AuditExchanges(RobotsResponse(key)) :
                   LET data == getOrFetch(key, Fetch(FALSE, RobotsURL(key), x))
                   IN  /\ audCache' = [audCache EXCEPT ![key] = data]
                       /\ audCallers' = AuditReturn(c, data)
                       /\ audHist' = [audHist EXCEPT
                              !.keys[key].fetches = @ + 1,
                              !.keys[key].outcome =
                                  IF @ = "none" THEN FetchOutcome(key, x) ELSE @]
    /\ UNCHANGED <<crawlVars, libVars, fetchVars, poolVars, limVars, anVars>>

InitRobots ==
    /\ InitCrawlIdle
    /\ InitFetchIdle
    /\ InitPoolIdle
    /\ InitLimIdle
    /\ InitAnalyzeIdle
    /\ InitLibIdle
    /\ audCache = [k \in HostKeys |-> "miss"]
    /\ audCallers = [c \in 1..MaxAuditors |-> AuditCall("idle", "", "", FALSE, "none")]
    /\ audHist = [keys |-> [k \in HostKeys |-> [fetches |-> 0, outcome |-> "none"]],
                  calls |-> 0]

NextRobots ==
    \E c \in 1..MaxAuditors :
        \/ Aud_Call(c)
        \/ Aud_ReadCache(c)
        \/ Aud_Fetch(c)

SpecRobots == InitRobots /\ [][NextRobots]_vars


(***************************************************************************)
(* httpclient: New installs the redirect policy, Do runs net/http's         *)
(* redirect loop.  A chain is the sequence of statuses the server answers   *)
(* to the successive requests; its last status is not a redirect.           *)
(***************************************************************************)
RedirectStatuses == {301, 302, 303, 307, 308}

RECURSIVE Repeat(_, _)
Repeat(x, n) == IF n = 0 THEN << >> ELSE <<x>> \o Repeat(x, n - 1)

RedirectChains ==
    { Repeat(st, r) \o <<final>> :
        st \in RedirectStatuses, r \in 0..MaxChain, final \in {StatusOK, 404} }

\* the CheckRedirect that New installs; via is len(via), the requests made so far
CheckRedirect(maxRedirects, via) ==
    IF maxRedirects >= 0
    THEN IF via >= maxRedirects THEN "stopped after redirects" ELSE "nil"
    ELSE "ErrUseLastResponse"

ClientReturn(status, err, requests) == [status |-> status, err |-> err, requests |-> requests]

\* Client.Do: http.Client.Do sends the request, and before it follows a redirect
\* it asks CheckRedirect with the requests made so far; Do returns a nil response
\* with the wrapped error
RECURSIVE ClientDo(_, _, _)
ClientDo(maxRedirects, chain, via) ==
    LET status == chain[via + 1]
    IN  IF status \notin RedirectStatuses
        THEN ClientReturn(status, "nil", via + 1)
        ELSE LET err == CheckRedirect(maxRedirects, via + 1)
             IN  IF err = "ErrUseLastResponse" THEN ClientReturn(status, "nil", via + 1)
                 ELSE IF err # "nil" THEN ClientReturn(0, err, via + 1)
                 ELSE ClientDo(maxRedirects, chain, via + 1)

Client_Do ==
    /\ cliCalls < MaxClientCalls
    /\ \E maxRedirects \in -1..MaxRedirectsBound, chain \in RedirectChains :
          /\ cliIn' = [MaxRedirects |-> maxRedirects, chain |-> chain]
          /\ cliOut' = ClientDo(maxRedirects, chain, 0)
    /\ cliCalls' = cliCalls + 1
    /\ UNCHANGED <<fetcher, rfOut>>
    /\ UNCHANGED <<crawlVars, fetchVars, poolVars, limVars, anVars, audVars, uaVars, stVars, mtVars>>

InitClient ==
    /\ InitCrawlIdle
    /\ InitFetchIdle
    /\ InitUnitsIdle

NextClient == Client_Do

SpecClient == InitClient /\ [][NextClient]_vars

(***************************************************************************)
(* A Fetcher shared by page fetches and by RobotsTxtAuditor.getOrFetch,     *)
(* which sets fetcher.config.MaxRedirects to 5 around its Fetch.            *)
(***************************************************************************)
\* Fetch's client.Do: the client follows redirects by the CheckRedirect New installed
FetcherDo(f, chain) == ClientDo(f.client.MaxRedirects, chain, 0)

\* what getOrFetch stores after the robots.txt fetch returned
RobotsData(ret) ==
    IF ret.err # "nil" THEN "nil"
    ELSE IF ret.status >= 400 THEN "nil"
    ELSE "parsed"

\* originalRedirects := r.fetcher.config.MaxRedirects; r.fetcher.config.MaxRedirects = 5
Robots_SetRedirects ==
    /\ rfOut.calls < MaxSharedFetches
    /\ fetcher.auditorPc = "idle"
    /\ fetcher' = [fetcher EXCEPT !.originalRedirects = fetcher.config.MaxRedirects,
                                  !.config.MaxRedirects = RobotsRedirects,
                                  !.auditorPc = "fetch"]
    /\ UNCHANGED <<rfOut, cliIn, cliOut, cliCalls>>
    /\ UNCHANGED <<crawlVars, fetchVars, poolVars, limVars, anVars, audVars, uaVars, stVars, mtVars>>

\* r.fetcher.Fetch(ctx, robotsURL); r.fetcher.config.MaxRedirects = originalRedirects;
\* the result is stored in the cache
Robots_Fetch ==
    /\ fetcher.auditorPc = "fetch"
    /\ \E chain \in RedirectChains :
          LET ret == FetcherDo(fetcher, chain)
          IN  rfOut' = SharedFetch("robots", chain, fetcher.config.MaxRedirects, ret,
                                   RobotsData(ret), rfOut.calls + 1)
    /\ fetcher' = [fetcher EXCEPT !.config.MaxRedirects = fetcher.originalRedirects,
                                  !.auditorPc = "idle"]
    /\ UNCHANGED <<cliIn, cliOut, cliCalls>>
    /\ UNCHANGED <<crawlVars, fetchVars, poolVars, limVars, anVars, audVars, uaVars, stVars, mtVars>>

\* a page fetch of another goroutine, before, during or after the robots fetch
Page_Fetch ==
    /\ rfOut.calls < MaxSharedFetches
    /\ \E chain \in RedirectChains :
          rfOut' = SharedFetch("page", chain, fetcher.config.MaxRedirects,
                               FetcherDo(fetcher, chain), "miss", rfOut.calls + 1)
    /\ UNCHANGED <<fetcher, cliIn, cliOut, cliCalls>>
    /\ UNCHANGED <<crawlVars, fetchVars, poolVars, limVars, anVars, audVars, uaVars, stVars, mtVars>>

InitSharedFetcher ==
    /\ InitCrawlIdle
    /\ InitFetchIdle
    /\ InitPoolIdle
    /\ InitLimIdle
    /\ InitAnalyzeIdle
    /\ InitAuditIdle
    /\ InitUAIdle
    /\ InitStoreIdle
    /\ InitMatchIdle
    /\ cliIn = [MaxRedirects |-> 0, chain |-> << >>]
    /\ cliOut = [status |-> 0, err |-> "none", requests |-> 0]
    /\ cliCalls = 0
    /\ \E m \in -1..MaxRedirectsBound : fetcher = NewFetcher(m)
    /\ rfOut = SharedFetch("none", << >>, 0, ClientReturn(0, "none", 0), "miss", 0)

NextSharedFetcher ==
    \/ Robots_SetRedirects
    \/ Robots_Fetch
    \/ Page_Fetch

SpecSharedFetcher == InitSharedFetcher /\ [][NextSharedFetcher]_vars


(***************************************************************************)
(* useragent.Pool: GetSequential called by concurrent goroutines.  The      *)
(* counter is an atomic.Uint64; the calls modelled stay far below 2^64, so  *)
(* it is counted in the naturals.  A call is two steps, the atomic Add and  *)
(* the return of the indexed user agent.                                    *)
(***************************************************************************)
DefaultPool == <<"d1", "d2", "d3", "d4", "d5", "d6", "d7", "d8", "d9", "d10">>

UALists == {<< >>, <<"A", "B", "C">>, <<"X", "Y">>, <<"A">>}

\* useragent.NewPool
NewUAPool(uas) == [uas |-> IF Len(uas) = 0 THEN DefaultPool ELSE uas, counter |-> 0]

\* the counter value after the Add taken as the index
SeqIndex_NoMinusOne(counter) == counter

\* idx := p.counter.Add(1) - 1, given the value Add returned
SeqIndex(counter) == counter - 1

\* p.uas[idx%uint64(len(p.uas))]
UAAt(p, idx) == p.uas[(idx % Len(p.uas)) + 1]

\* p.counter.Add(1)
UA_Add(c) ==
    /\ uaCallers[c].pc = "idle"
    /\ uaPool.counter < MaxUACalls
    /\ uaPool' = [uaPool EXCEPT !.counter = @ + 1]
    /\ uaCallers' = [uaCallers EXCEPT
           ![c] = UACall("got", uaPool.counter + 1, SeqIndex(uaPool.counter + 1), "")]
    /\ uaHist' = Append(uaHist, "pending")
    /\ UNCHANGED <<crawlVars, fetchVars, poolVars, limVars, anVars, audVars, cliVars, stVars, mtVars>>

\* return p.uas[idx % len]
UA_Return(c) ==
    /\ uaCallers[c].pc = "got"
    /\ uaCallers' = [uaCallers EXCEPT ![c].pc = "idle",
                                      ![c].ua = UAAt(uaPool, uaCallers[c].idx)]
    /\ uaHist' = [uaHist EXCEPT ![uaCallers[c].k] = UAAt(uaPool, uaCallers[c].idx)]
    /\ UNCHANGED <<uaPool, crawlVars, fetchVars, poolVars, limVars, anVars, audVars, cliVars,
                   stVars, mtVars>>

InitUA ==
    /\ InitCrawlIdle
    /\ InitFetchIdle
    /\ InitPoolIdle
    /\ InitLimIdle
    /\ InitAnalyzeIdle
    /\ InitAuditIdle
    /\ InitClientIdle
    /\ InitStoreIdle
    /\ InitMatchIdle
    /\ \E uas \in UALists : uaPool = NewUAPool(uas)
    /\ uaCallers = [c \in 1..MaxUACallers |-> UACall("idle", 0, 0, "")]
    /\ uaHist = << >>

NextUA ==
    \E c \in 1..MaxUACallers :
        \/ UA_Add(c)
        \/ UA_Return(c)

SpecUA == InitUA /\ [][NextUA]_vars


(***************************************************************************)
(* The file backends (NDJSON and CSV): Save appends a record to the file,   *)
(* Query reads the file from the start.  The two Query functions filter,    *)
(* order and slice alike.  created_at is a whole number of clock units;     *)
(* both encodings give it back unchanged.                                   *)
(***************************************************************************)
Row(url, detectedBot, createdAt) ==
    [URL |-> url, DetectedBot |-> detectedBot, CreatedAt |-> createdAt]

Rows == {Row(u, b, t) : u \in {"u", "v"}, b \in BOOLEAN, t \in 1..MaxCreated}

Filters ==
    {Filter(u, b, sn, lim0, off) :
        u \in {"", "u"}, b \in {"any", "true"}, sn \in {0, 2}, lim0 \in 0..2, off \in 0..2}

\* the three filter conditions of Query
Passes(r, f) ==
    /\ ~(f.URL # "" /\ r.URL # f.URL)
    /\ ~(f.DetectedBot # "any" /\ r.DetectedBot # (f.DetectedBot = "true"))
    /\ ~(f.Since # 0 /\ r.CreatedAt < f.Since)

Reverse(s) == [i \in 1..Len(s) |-> s[Len(s) + 1 - i]]

\* Query: filter in file order, reverse, offset, limit
Query(rows, f) ==
    LET Keep(r) == Passes(r, f)
        allFiltered == Reverse(SelectSeq(rows, Keep))
        afterOffset == IF f.Offset > 0
                       THEN IF f.Offset >= Len(allFiltered)
                            THEN << >>
                            ELSE SubSeq(allFiltered, f.Offset + 1, Len(allFiltered))
                       ELSE allFiltered
    IN  IF f.Offset > 0 /\ f.Offset >= Len(allFiltered) THEN << >>
        ELSE IF f.Limit > 0 /\ f.Limit < Len(afterOffset)
        THEN SubSeq(afterOffset, 1, f.Limit)
        ELSE afterOffset

\* Save: the record goes to the end of the file
Store_Save ==
    /\ stCalls < MaxStoreCalls
    /\ Len(stRows) < MaxRows
    /\ \E r \in Rows : stRows' = Append(stRows, r)
    /\ stCalls' = stCalls + 1
    /\ UNCHANGED <<stOut, crawlVars, fetchVars, poolVars, limVars, anVars, audVars, cliVars,
                   uaVars, mtVars>>

Store_Query ==
    /\ stCalls < MaxStoreCalls
    /\ \E f \in Filters :
          stOut' = [filter |-> f, rows |-> stRows, results |-> Query(stRows, f),
                    queried |-> TRUE]
    /\ stCalls' = stCalls + 1
    /\ UNCHANGED <<stRows, crawlVars, fetchVars, poolVars, limVars, anVars, audVars, cliVars,
                   uaVars, mtVars>>

InitStore ==
    /\ InitCrawlIdle
    /\ InitFetchIdle
    /\ InitUnitsIdle

NextStore ==
    \/ Store_Save
    \/ Store_Query

SpecStore == InitStore /\ [][NextStore]_vars

(***************************************************************************)
(* internal/analyzer: FindTermMatches and FindTermMatchesOptimized.  A      *)
(* string is a sequence of one-character strings over a small alphabet.     *)
(***************************************************************************)
Delimiters == {".", "!", "?"}

\* strings.TrimSpace
RECURSIVE TrimSpace(_)
TrimSpace(str) ==
    IF str = << >> THEN << >>
    ELSE IF Head(str) = " " THEN TrimSpace(Tail(str))
    ELSE IF str[Len(str)] = " " THEN TrimSpace(SubSeq(str, 1, Len(str) - 1))
    ELSE str

\* for end < len(text) && unicode.IsSpace(rune(text[end])) { end++ }
RECURSIVE SkipSpace(_, _)
SkipSpace(text, end) ==
    IF end <= Len(text) /\ text[end] = " " THEN SkipSpace(text, end + 1) ELSE end

\* the loop of splitIntoSentences from character i on, the open sentence starting at start
RECURSIVE SplitFrom(_, _, _, _)
SplitFrom(text, i, start, sentences) ==
    IF i > Len(text)
    THEN IF start <= Len(text)
         THEN Append(sentences, TrimSpace(SubSeq(text, start, Len(text))))
         ELSE sentences
    ELSE IF text[i] \in Delimiters
    THEN LET end == SkipSpace(text, i + 1)
         IN  SplitFrom(text, i + 1, end,
                       Append(sentences, TrimSpace(SubSeq(text, start, end - 1))))
    ELSE SplitFrom(text, i + 1, start, sentences)

\* splitIntoSentences; splitIntoSentencesOptimized yields the same originals
splitIntoSentences(text) == SplitFrom(text, 1, 1, << >>)

\* strings.Contains
Contains(str, substr) ==
    \E k \in 0..(Len(str) - Len(substr)) : SubSeq(str, k + 1, k + Len(substr)) = substr

\* strings.Count: non-overlapping occurrences of a non-empty substr from position i on
RECURSIVE CountFrom(_, _, _)
CountFrom(str, substr, i) ==
    IF i + Len(substr) - 1 > Len(str) THEN 0
    ELSE IF SubSeq(str, i, i + Len(substr) - 1) = substr
    THEN 1 + CountFrom(str, substr, i + Len(substr))
    ELSE CountFrom(str, substr, i + 1)

TermMatch(term, count, sentences) == [Term |-> term, Count |-> count, Sentences |-> sentences]

\* the inner loop of FindTermMatches from sentence k on:
\* matched = append(matched, strings.TrimSpace(sentences[len(matched)]))
RECURSIVE MatchedPlain(_, _, _, _)
MatchedPlain(sentences, lowerTerm, k, matched) ==
    IF k > Len(sentences) THEN matched
    ELSE IF Contains(ToLower(sentences[k]), lowerTerm)
    THEN MatchedPlain(sentences, lowerTerm, k + 1,
                      Append(matched, TrimSpace(sentences[Len(matched) + 1])))
    ELSE MatchedPlain(sentences, lowerTerm, k + 1, matched)

\* the inner loop of FindTermMatchesOptimized: matched = append(matched, sd.original)
RECURSIVE MatchedOptimized(_, _, _, _)
MatchedOptimized(sentences, lowerTerm, k, matched) ==
    IF k > Len(sentences) THEN matched
    ELSE IF Contains(ToLower(sentences[k]), lowerTerm)
    THEN MatchedOptimized(sentences, lowerTerm, k + 1, Append(matched, sentences[k]))
    ELSE MatchedOptimized(sentences, lowerTerm, k + 1, matched)

\* the loop over the terms, from term i on
RECURSIVE MatchTerms(_, _, _, _, _)
MatchTerms(content, terms, i, optimized, results) ==
    IF i > Len(terms) THEN results
    ELSE LET lowerTerm == ToLower(terms[i])
             count == CountFrom(ToLower(content), lowerTerm, 1)
             sentences == splitIntoSentences(content)
             matched == IF optimized
                        THEN MatchedOptimized(sentences, lowerTerm, 1, << >>)
                        ELSE MatchedPlain(sentences, lowerTerm, 1, << >>)
         IN  IF count = 0
             THEN MatchTerms(content, terms, i + 1, optimized, results)
             ELSE MatchTerms(content, terms, i + 1, optimized,
                             Append(results, TermMatch(terms[i], count, matched)))

FindTermMatches(content, terms) == MatchTerms(content, terms, 1, FALSE, << >>)

\* nil for an empty content or term list
FindTermMatchesOptimized(content, terms) ==
    IF Len(content) = 0 \/ Len(terms) = 0 THEN << >>
    ELSE MatchTerms(content, terms, 1, TRUE, << >>)

\* every string over the alphabet of at most n characters
RECURSIVE StringsUpTo(_)
StringsUpTo(n) ==
    IF n = 0 THEN {<< >>}
    ELSE LET shorter == StringsUpTo(n - 1)
         IN  shorter \cup {Append(str, ch) : str \in shorter, ch \in {"X", "a", ".", " "}}

TermLists == {<< >>, <<<<"x">>>>, <<<<"A">>>>, <<<<"a", "x">>, <<"X">>>>}

Match_Search ==
    /\ ~mtIn.searched
    /\ mtOut' = [plain |-> FindTermMatches(mtIn.content, mtIn.terms),
                 optimized |-> FindTermMatchesOptimized(mtIn.content, mtIn.terms)]
    /\ mtIn' = [mtIn EXCEPT !.searched = TRUE]
    /\ UNCHANGED <<crawlVars, fetchVars, poolVars, limVars, anVars, audVars, cliVars,
                   uaVars, stVars>>

InitMatch ==
    /\ InitCrawlIdle
    /\ InitFetchIdle
    /\ InitPoolIdle
    /\ InitLimIdle
    /\ InitAnalyzeIdle
    /\ InitAuditIdle
    /\ InitClientIdle
    /\ InitUAIdle
    /\ InitStoreIdle
    /\ \E content \in StringsUpTo(MaxContent), terms \in TermLists :
          mtIn = [content |-> content, terms |-> terms, searched |-> FALSE]
    /\ mtOut = [plain |-> << >>, optimized |-> << >>]

NextMatch == Match_Search

SpecMatch == InitMatch /\ [][NextMatch]_vars

(***************************************************************************)
(* Notions the properties use.                                              *)
(***************************************************************************)
IsCrawlURL(c) == Parse(c).ok /\ Parse(c).Scheme \in {"http", "https"}

\* the lowercased host equals a lowercased scope domain or is a subdomain of one
HostInScope(c) ==
    LET h == ToLower(Parse(c).Host)
    IN  \E i \in 1..Len(cfg.Domains) :
           LET d == ToLower(cfg.Domains[i])
           IN  \/ h = d
               \/ /\ Len(h) > Len(d)
                  /\ SubSeq(h, Len(h) - Len(d), Len(h)) = <<".">> \o d

Admissible(c) == IsCrawlURL(c) /\ (Len(cfg.Domains) = 0 \/ HostInScope(c))

CanonSeeds == {Canon(input.seeds[i]) : i \in 1..Len(input.seeds)}

LinkTargetsTable ==
    [c \in CanonURLs |->
        IF IsHTML(Web(c).ctype)
        THEN {Canon(Web(c).links[i]) : i \in 1..Len(Web(c).links)}
        ELSE {}]

\* the canonical URLs the page at c links to
LinkTargets(c) == LinkTargetsTable[c]

\* the pages that link to c
LinkersTable == [c \in CanonURLs |-> {q \in CanonURLs : c \in LinkTargetsTable[q]}]

RECURSIVE ReachWithin(_, _)
ReachWithin(S, hops) ==
    IF hops <= 0 THEN S
    ELSE ReachWithin(S \cup {c \in UNION {LinkTargets(p) : p \in S} : Admissible(c)}, hops - 1)

\* the admissible canonical URLs at most MaxDepth links away from an admitted seed
Reachable == ReachWithin({c \in CanonSeeds : Admissible(c)}, cfg.MaxDepth)

InQueue(c) == \E i \in 1..Len(queue) : Canon(queue[i].URL) = c

InProgress(c) ==
    \E w \in DOMAIN workers :
        /\ workers[w].pc \notin {"init", "select", "exited"}
        /\ Canon(workers[w].job.URL) = c

QueuedCopies(c) == Cardinality({i \in 1..Len(queue) : Canon(queue[i].URL) = c})

\* how many times a job for c was taken from the queue
Taken(c) == enqueued[c] - QueuedCopies(c)

\* the robots.txt the host of c serves forbids c's path
Disallowed(c) ==
    LET r == RobotsTxt(HostKey(Parse(c)))
    IN  r.status < 400 /\ r.parses /\ Parse(c).Path \in r.disallow

(***************************************************************************)
(* C1: over a whole Run no canonical URL is sent to the queue more than     *)
(* once, whatever the interleaving of the workers' shouldVisit and          *)
(* markVisited calls.                                                       *)
(***************************************************************************)
C1_AdmittedAtMostOnce == \A c \in CanonURLs : enqueued[c] <= 1

(***************************************************************************)
(* C2: if ctx is cancelled while the outstanding-work counter is above      *)
(* zero, Run returns the cancellation error and never nil.                  *)
(***************************************************************************)
C2_CancelledRunReturnsError ==
    (runPc = "returned" /\ wgAtCancel > 0) => runErr = "cancelled"

(***************************************************************************)
(* C3: whenever Run has returned nil, every member of the visited set has   *)
(* been taken from the queue exactly once and its processJob has finished,  *)
(* and no job is left in the queue or in progress.                          *)
(***************************************************************************)
C3_NilMeansEveryJobDoneOnce ==
    runErr = "nil" =>
        /\ queue = << >>
        /\ \A c \in visited : Taken(c) = 1 /\ ~InProgress(c)
        /\ \A c \in CanonURLs : ~InProgress(c)

(***************************************************************************)
(* C4: with ctx never cancelled and a queue at least as large as the set of *)
(* admissible URLs, Run eventually returns nil under fair scheduling.       *)
(***************************************************************************)
C4_RunEventuallyReturnsNil ==
    (~input.mayCancel /\ Capacity >= Cardinality(Reachable))
        => <>(runPc = "returned" /\ runErr = "nil")

(***************************************************************************)
(* C5, as stated: with respect_robots, a URL its host's robots.txt          *)
(* disallows is never passed to Fetch and never saved.                      *)
(***************************************************************************)
C5_DisallowedNeverFetched ==
    cfg.RespectRobots =>
        \A c \in CanonURLs :
            (IsCrawlURL(c) /\ Disallowed(c)) => (fetched[c] = 0 /\ saved[c] = 0)

(***************************************************************************)
(* C5, amended: with respect_robots, a URL disallowed by the robots.txt     *)
(* that the auditor fetched and parsed for its host is never passed to      *)
(* Fetch and never saved, and its job still finishes: when Run returns nil  *)
(* without a cancellation the URL was enqueued and is neither queued nor    *)
(* in progress.                                                             *)
(***************************************************************************)
C5_ParsedDisallowNeverFetched ==
    cfg.RespectRobots =>
        \A c \in CanonURLs :
            (/\ IsCrawlURL(c)
             /\ Disallowed(c)
             /\ robotsCache[HostKey(Parse(c))] = "parsed")
            => /\ fetched[c] = 0
               /\ saved[c] = 0
               /\ (runErr = "nil" /\ wgAtCancel = -1 /\ c \in visited)
                      => (enqueued[c] >= 1 /\ ~InQueue(c) /\ ~InProgress(c))

C5_Witness ==
    /\ cfg.RespectRobots
    /\ runErr = "nil"
    /\ wgAtCancel = -1
    /\ "blk" \in visited
    /\ robotsCache["http://a.c"] = "parsed"
    /\ fetched["blk"] = 0
    /\ fetched["s"] > 0

(***************************************************************************)
(* C6: with a non-empty scope list, shouldVisit accepts an http/https URL   *)
(* that is not yet visited if and only if its lowercased host equals a      *)
(* lowercased scope domain or ends with "." followed by one; and no         *)
(* out-of-scope URL is ever visited, queued or fetched.                     *)
(***************************************************************************)
C6_ScopeAdmission ==
    Len(cfg.Domains) > 0 =>
        /\ \A n \in RawURLs :
              (IsCrawlURL(n) /\ Canon(n) \notin visited)
                  => (shouldVisit(n) <=> HostInScope(n))
        /\ \A c \in visited : HostInScope(c)
        /\ \A i \in 1..Len(queue) : HostInScope(queue[i].URL)
        /\ \A c \in CanonURLs : fetched[c] > 0 => HostInScope(c)

C6_Witness ==
    /\ Len(cfg.Domains) > 0
    /\ runErr = "nil"
    /\ fetched["s"] > 0
    /\ fetched["sub"] > 0
    /\ "near" \notin visited
    /\ "mail" \notin visited

(***************************************************************************)
(* C7: for max_depth >= 0 every job ever enqueued has depth <= max_depth:   *)
(* seeds are enqueued at depth 0, a child one deeper than a page that links *)
(* to it, a job at depth >= max_depth never reaches the link loop, and with *)
(* max_depth = 0 only seeds are fetched.                                    *)
(***************************************************************************)
C7_DepthBounded ==
    cfg.MaxDepth >= 0 =>
        /\ \A i \in 1..Len(queue) : queue[i].Depth <= cfg.MaxDepth
        /\ \A c \in CanonURLs :
              /\ \A d \in depthOf[c] : d >= 0 /\ d <= cfg.MaxDepth
              /\ depthOf[c] \subseteq
                    (IF c \in CanonSeeds THEN {0} ELSE {}) \cup
                    {d + 1 : d \in UNION {depthOf[p] : p \in LinkersTable[c]}}
        /\ runPc = "seed" => \A i \in 1..Len(queue) : queue[i].Depth = 0
        /\ \A w \in DOMAIN workers :
              workers[w].pc \in {"shouldVisit", "markVisited", "send"}
                  => workers[w].job.Depth < cfg.MaxDepth
        /\ cfg.MaxDepth = 0 => \A c \in CanonURLs : fetched[c] > 0 => c \in CanonSeeds

C7_Witness ==
    /\ cfg.MaxDepth = 1
    /\ runErr = "nil"
    /\ depthOf["x"] = {1}
    /\ fetched["x"] > 0
    /\ "z" \notin visited

(***************************************************************************)
(* C8: after Run returns nil, with the robots gate off and every fetch      *)
(* succeeding, the visited set is exactly the set of in-scope canonical     *)
(* URLs at most max_depth links from the admitted seeds, and exactly one    *)
(* result per such URL is persisted.                                        *)
(***************************************************************************)
C8_VisitedIsReachableSet ==
    (/\ runErr = "nil"
     /\ ~cfg.RespectRobots
     /\ ~input.mayFail
     /\ ~input.mayCancel)
    => /\ visited = Reachable
       /\ \A c \in CanonURLs : saved[c] = (IF c \in Reachable THEN 1 ELSE 0)

(***************************************************************************)
(* C9: every result Fetch returns has status_code 0 when its error is       *)
(* non-empty.                                                               *)
(***************************************************************************)
C9_ErrorImpliesNoStatus ==
    fetchCalls > 0 => (fetchOut.result.Error # "" => fetchOut.result.StatusCode = 0)

(***************************************************************************)
(* C10: Fetch returns a non-nil result and a nil error on every path; a     *)
(* failure shows only in the result's Error field.                          *)
(***************************************************************************)
C10_AlwaysResultNeverError ==
    fetchCalls > 0 =>
        /\ fetchOut.result # NilResult
        /\ fetchOut.err = "nil"
        /\ fetchOut.result.URL = fetchIn.targetURL
        /\ (\/ (fetchIn.hasLimiter /\ fetchIn.x.limiter = "cancelled")
            \/ ~IsCrawlURL(fetchIn.targetURL)
            \/ fetchIn.x.do = "err"
            \/ fetchIn.x.read = "err") => fetchOut.result.Error # ""

C10_Witness ==
    /\ fetchCalls > 0
    /\ fetchIn.x.do = "err"
    /\ fetchOut.result.Error = "request failed"
    /\ fetchOut.err = "nil"

\* the entry would be handed out by a Next call at time now
Eligible(prx, now) == ~prx.Disabled \/ now > prx.DisabledUntil

\* the entries of p in the order Next examines them, from the cursor on
ExaminationOrder(p) ==
    [j \in 1..Len(p.proxies) |-> ((p.currentIndex + j - 1) % Len(p.proxies)) + 1]

\* the first entry in that order a Next call at time now hands out, 0 if none
FirstEligible(p, now) ==
    LET order == ExaminationOrder(p)
        hits == {j \in 1..Len(p.proxies) : Eligible(p.proxies[order[j]], now)}
    IN  IF hits = {} THEN 0
        ELSE order[CHOOSE j \in hits : \A h \in hits : j <= h]

SupportedSchemes == {"http", "https", "socks5"}

(***************************************************************************)
(* C11: a pool entry that received max_failures consecutive MarkFailure     *)
(* calls is returned by Next only once the cooldown has elapsed since the   *)
(* call that completed the run, and its failure counter is zero when it is  *)
(* returned.                                                                *)
(***************************************************************************)
C11_FailedProxyCoolsDown ==
    (poolOut.op = "Next" /\ poolOut.idx > 0 /\ poolOut.since >= 0)
        => /\ poolOut.now - poolOut.since >= pool.cooldown
           /\ poolOut.failures = 0

C11_Witness ==
    /\ poolOut.op = "Next"
    /\ poolOut.idx > 0
    /\ poolOut.since >= 0
    /\ poolOut.before.proxies[poolOut.idx].Disabled
    /\ pool.maxFailures = 2

(***************************************************************************)
(* C12: Next returns the first entry at or after the cursor, in cyclic      *)
(* insertion order, that is not disabled (or whose cooldown is over) and    *)
(* leaves the cursor just past it; it returns nil exactly when the pool is  *)
(* empty or every entry is disabled and still cooling down, then having     *)
(* examined every entry once and with the cursor where it started; and      *)
(* while all entries are healthy, consecutive calls return the entries one  *)
(* after the other in insertion order, each once in n calls.                *)
(***************************************************************************)
C12_NextIsRoundRobin ==
    poolOut.op = "Next" =>
        LET b == poolOut.before
            n == Len(b.proxies)
            first == FirstEligible(b, poolOut.now)
            served == poolHist.served
        IN  /\ poolOut.idx = first
            /\ first > 0 => /\ poolOut.url = b.proxies[first].URL
                            /\ pool.currentIndex = first % n
            /\ (poolOut.url = NilProxyURL) <=>
                  (n = 0 \/ \A i \in 1..n : ~Eligible(b.proxies[i], poolOut.now))
            /\ (poolOut.url = NilProxyURL /\ n > 0) =>
                  (poolOut.examined = n /\ pool.currentIndex = b.currentIndex)
            /\ \A j \in 1..(Len(served) - 1) : served[j + 1] = (served[j] % n) + 1
            /\ Len(served) = n => {served[j] : j \in 1..n} = 1..n

C12_Witness ==
    /\ poolOut.op = "Next"
    /\ Len(pool.proxies) = 2
    /\ Len(poolHist.served) = 2
    /\ poolOut.before.currentIndex = 1
    /\ pool.currentIndex = 0

(***************************************************************************)
(* C13: Add accepts only http, https and socks5 URLs (a URL without scheme  *)
(* counts as http): for any other scheme it returns an "unsupported proxy   *)
(* scheme" error, and no such URL is ever an entry of the pool or returned  *)
(* by Next.                                                                 *)
(***************************************************************************)
C13_OnlySupportedSchemes ==
    /\ \A i \in 1..Len(pool.proxies) : pool.proxies[i].URL.Scheme \in SupportedSchemes
    /\ (poolOut.op = "Add" /\ \E j \in 1..Len(poolOut.arg) : poolOut.arg[j] = "ftp://d")
          => poolOut.err = "unsupported proxy scheme"
    /\ (poolOut.op = "Next" /\ poolOut.idx > 0) => poolOut.url.Scheme \in SupportedSchemes

(***************************************************************************)
(* C14: at rps = r > 0 and jitter 0, any N >= 2 Wait calls that returned    *)
(* nil span at least (N-1)/r between the first and the last return, also    *)
(* when a tick was buffered before the first call.                          *)
(***************************************************************************)
C14_NilReturnsSpaced ==
    (lim.hasTicker /\ lim.jitter = 0) =>
        \A i \in 1..Len(limHist.returns), j \in 1..Len(limHist.returns) :
            i < j => (limHist.returns[j] - limHist.returns[i]) * lim.rps
                        >= (j - i) * UnitsPerSecond

(***************************************************************************)
(* C15: at rps > 0, a Wait call whose ctx was cancelled when it was called, *)
(* or was cancelled while it waited, returns the context error and never    *)
(* nil, also when a tick was available.                                     *)
(***************************************************************************)
C15_CancelledWaitReturnsError ==
    lim.hasTicker =>
        \A c \in DOMAIN limCallers :
            (/\ limCallers[c].pc = "idle"
             /\ limCallers[c].err # "none"
             /\ limCallers[c].ctxAtCall \/ limCallers[c].cancelledInWait)
            => limCallers[c].err = "cancelled"

(***************************************************************************)
(* The challenge vendors as the specification states them: the status gate  *)
(* of each vendor, its header and body signatures, and the fixed order.     *)
(***************************************************************************)
VendorOrder == <<"Cloudflare", "Akamai", "DataDome", "PerimeterX">>

StatusGate(v, res) ==
    \/ res.StatusCode = 403
    \/ v = "Cloudflare" /\ res.StatusCode = 503

SignatureMatches(v, res) ==
    CASE v = "Cloudflare" ->
            \/ res.Headers.Server \in {"Cloudflare"}
            \/ \E sig \in {"cf-browser-verification", "cloudflare-nginx", "cf-turnstile",
                           "Attention Required! | Cloudflare"} : sig \in res.Body
      [] v = "Akamai" ->
            \/ res.Headers.Server \in {"AkamaiGHost"}
            \/ "Reference #" \in res.Body /\ "Access Denied" \in res.Body
      [] v = "DataDome" ->
            \/ res.Headers.Server \in {"DataDome"}
            \/ res.Headers.XDataDome # ""
            \/ res.Headers.XDataDomeResponse # ""
            \/ "geo.captcha-delivery.com" \in res.Body
            \/ "datadome" \in res.Body
      [] OTHER ->
            \/ res.Headers.XPxCaptcha # ""
            \/ \E sig \in {"client.perimeterx.net", "px-captcha", "_pxBlock"} : sig \in res.Body

VendorMatches(v, res) == StatusGate(v, res) /\ SignatureMatches(v, res)

\* the earliest vendor of the fixed order matching the result, "" when none does
EarliestVendor(res) ==
    IF \E i \in 1..Len(VendorOrder) : VendorMatches(VendorOrder[i], res)
    THEN VendorOrder[CHOOSE i \in 1..Len(VendorOrder) :
                        /\ VendorMatches(VendorOrder[i], res)
                        /\ \A j \in 1..(i - 1) : ~VendorMatches(VendorOrder[j], res)]
    ELSE ""

MatchCount(res) == Cardinality({i \in 1..Len(VendorOrder) : VendorMatches(VendorOrder[i], res)})

(***************************************************************************)
(* C16: Analyze with the default detectors records as detection source the  *)
(* first vendor, in the order Cloudflare, Akamai, DataDome, PerimeterX,     *)
(* whose status gate and one of whose signatures match the result; a result *)
(* matching several vendors goes to the earliest, and a result whose status *)
(* is neither 403 nor 503 is never marked detected.                         *)
(***************************************************************************)
C16_FirstVendorInFixedOrder ==
    (anCalls > 0 /\ anIn.detectors = DefaultDetectors) =>
        /\ anOut.once.DetectionSrc = EarliestVendor(anIn.res)
        /\ anOut.once.DetectedBot = (EarliestVendor(anIn.res) # "")
        /\ anIn.res.StatusCode \notin {403, 503} => ~anOut.once.DetectedBot

\* a 403 result that carries the signatures of two vendors, attributed to one
C16_Witness ==
    /\ anCalls > 0
    /\ anIn.detectors = DefaultDetectors
    /\ MatchCount(anIn.res) >= 2
    /\ anOut.once.DetectedBot
    /\ anOut.once.DetectionSrc = "Akamai"

(***************************************************************************)
(* C17: after every Analyze run on a non-nil result, detected_bot is true   *)
(* exactly when detection_source is non-empty, and a non-empty source is    *)
(* one of Cloudflare, Akamai, DataDome, PerimeterX; the same holds for      *)
(* every result Fetch returns after a response was received.                *)
(***************************************************************************)
C17_FlagIffSource ==
    /\ anCalls > 0 =>
          /\ anOut.once.DetectedBot <=> anOut.once.DetectionSrc # ""
          /\ anOut.once.DetectionSrc # "" =>
                anOut.once.DetectionSrc \in {"Cloudflare", "Akamai", "DataDome", "PerimeterX"}
    /\ (fetchCalls > 0 /\ fetchOut.result.StatusCode # 0) =>
          /\ fetchOut.result.DetectedBot <=> fetchOut.result.DetectionSrc # ""
          /\ fetchOut.result.DetectionSrc # "" =>
                fetchOut.result.DetectionSrc \in {"Cloudflare", "Akamai", "DataDome", "PerimeterX"}

\* a result that came in unannotated and leaves Analyze detected and attributed
C17_Witness ==
    /\ anCalls > 0
    /\ ~anIn.res.DetectedBot /\ anIn.res.DetectionSrc = ""
    /\ anOut.once.DetectedBot
    /\ anOut.once.DetectionSrc = "DataDome"

(***************************************************************************)
(* C18: Analyze is idempotent and overwrites stale annotations: a second    *)
(* run leaves the detection fields of the first, and when no detector       *)
(* matches, detected_bot becomes false and detection_source empty whatever  *)
(* they held before the call.                                               *)
(***************************************************************************)
C18_IdempotentAndClearsStale ==
    anCalls > 0 =>
        /\ anOut.twice.DetectedBot = anOut.once.DetectedBot
        /\ anOut.twice.DetectionSrc = anOut.once.DetectionSrc
        /\ (\A i \in 1..Len(anIn.detectors) : ~VendorMatches(anIn.detectors[i], anIn.res))
              => (~anOut.once.DetectedBot /\ anOut.once.DetectionSrc = "")

\* a result annotated by an earlier run that no detector matches any more
C18_Witness ==
    /\ anCalls > 0
    /\ anIn.detectors = DefaultDetectors
    /\ anIn.res.DetectedBot /\ anIn.res.DetectionSrc = "Akamai"
    /\ MatchCount(anIn.res) = 0
    /\ ~anOut.once.DetectedBot /\ anOut.once.DetectionSrc = ""

(***************************************************************************)
(* C19: for each scheme://host key the auditor fetches robots.txt at most   *)
(* once over its lifetime, whatever the outcome of that fetch and however   *)
(* concurrent IsAllowed calls that miss the cache for the key interleave.   *)
(***************************************************************************)
C19_OneFetchPerHost ==
    \A k \in HostKeys : audHist.keys[k].fetches <= 1

\* two calls missed the cache for one host; its fetch failed and was made once,
\* the second caller is at the write lock
C19_Witness ==
    \E c \in DOMAIN audCallers, d \in DOMAIN audCallers :
        /\ c # d
        /\ audCallers[c].pc = "lock"
        /\ audCallers[d].pc = "idle" /\ audCallers[d].err = "nil"
        /\ Parse(audCallers[d].url).ok
        /\ HostKey(Parse(audCallers[c].url)) = HostKey(Parse(audCallers[d].url))
        /\ audHist.keys[HostKey(Parse(audCallers[c].url))].fetches = 1
        /\ audHist.keys[HostKey(Parse(audCallers[c].url))].outcome = "transport"

(***************************************************************************)
(* C20: when the robots.txt fetch of a host failed with a transport error   *)
(* or returned a 4xx status, IsAllowed returns (true, nil) for the URL that *)
(* triggered the fetch and for every later URL of the host, for any user    *)
(* agent.                                                                   *)
(***************************************************************************)
C20_FailedFetchAllowsAll ==
    \A c \in DOMAIN audCallers :
        (/\ audCallers[c].pc = "idle"
         /\ audCallers[c].err # "none"
         /\ Parse(audCallers[c].url).ok
         /\ audHist.keys[HostKey(Parse(audCallers[c].url))].outcome \in {"transport", "status"})
        => (audCallers[c].allowed /\ audCallers[c].err = "nil")

\* a host that answered 404: two calls have returned for it, one of them for
\* the user agent that the host's rules would turn away
C20_Witness ==
    \E c \in DOMAIN audCallers, d \in DOMAIN audCallers :
        /\ c # d
        /\ audCallers[c].pc = "idle" /\ audCallers[d].pc = "idle"
        /\ audCallers[c].url = "sub" /\ audCallers[d].url = "sub"
        /\ audCallers[c].ua = "BadBot"
        /\ audCallers[c].allowed /\ audCallers[c].err = "nil"
        /\ audCallers[d].allowed /\ audCallers[d].err = "nil"
        /\ audHist.keys["http://X.a.c"].outcome = "status"
        /\ audCache["http://X.a.c"] = "nil"

(***************************************************************************)
(* C21: when robots.txt is fetched with a status below 400 and its body     *)
(* does not parse, IsAllowed returns a non-nil error to its caller instead  *)
(* of reporting the URL as allowed.                                         *)
(***************************************************************************)
C21_ParseFailurePropagates ==
    \A c \in DOMAIN audCallers :
        (/\ audCallers[c].pc = "idle"
         /\ audCallers[c].err # "none"
         /\ Parse(audCallers[c].url).ok
         /\ audHist.keys[HostKey(Parse(audCallers[c].url))].outcome = "parseError")
        => audCallers[c].err # "nil"

(***************************************************************************)
(* C22: with max_redirects = n >= 0 the client follows at most n redirects: *)
(* a chain of at most n redirects ends in the final response without error, *)
(* a chain of more than n redirects ends in an error; with max_redirects    *)
(* = -1 no redirect is followed and the first response is returned without  *)
(* error.                                                                   *)
(***************************************************************************)
C22_FollowsAtMostMaxRedirects ==
    cliCalls > 0 =>
        LET n == cliIn.MaxRedirects
            redirects == Len(cliIn.chain) - 1
        IN  /\ (n >= 0 /\ redirects <= n) =>
                  /\ cliOut.err = "nil"
                  /\ cliOut.status = cliIn.chain[Len(cliIn.chain)]
            /\ (n >= 0 /\ redirects > n) => cliOut.err # "nil"
            /\ n = -1 => (cliOut.err = "nil" /\ cliOut.status = cliIn.chain[1]
                          /\ cliOut.requests = 1)

(***************************************************************************)
(* C23: with a sink configured, Save is invoked exactly once for every      *)
(* Fetch a worker performs and never for a job that was skipped for         *)
(* robots.txt or whose limiter wait was cancelled; a Save that returns an   *)
(* error does not abort the crawl: the links of that page are extracted,    *)
(* and Run returns an error only for a cancelled ctx.                       *)
(***************************************************************************)
SaveOnlyWithFetch ==
    saved' # saved =>
        \E w \in DOMAIN workers :
            /\ workers[w].pc = "fetch"
            /\ fetched' = Count(fetched, Canon(workers[w].job.URL))
            /\ saved' = Count(saved, Canon(workers[w].job.URL))

SaveErrorGoesOn ==
    \A w \in DOMAIN workers :
        (/\ workers[w].pc = "fetch"
         /\ workers'[w].saveErr = "err"
         /\ workers'[w].fetchErr = ""
         /\ workers[w].job.Depth < cfg.MaxDepth
         /\ IsHTML(Web(Canon(workers[w].job.URL)).ctype)
         /\ Web(Canon(workers[w].job.URL)).links # << >>)
        => /\ workers'[w].pc = "shouldVisit"
           /\ workers'[w].links = Web(Canon(workers[w].job.URL)).links

C23_SaveOncePerFetchErrorsIgnored ==
    /\ [](cfg.Backend => \A c \in CanonURLs : saved[c] = fetched[c])
    /\ [](runErr = "cancelled" => ctxDone)
    /\ [][SaveOnlyWithFetch /\ SaveErrorGoesOn]_vars

\* a worker whose Save failed is sending a child of that page to the queue
C23_Witness ==
    \E w \in DOMAIN workers :
        /\ workers[w].saveErr = "err"
        /\ workers[w].pc = "send"
        /\ saved[Canon(workers[w].job.URL)] = 1

(***************************************************************************)
(* C24: GetSequential hands out identities in strict round-robin under      *)
(* concurrency: the k-th call in counter order returns uas[(k-1) mod n]; no *)
(* call is lost or duplicated; after N calls each of the n user agents has  *)
(* been returned floor(N/n) or ceil(N/n) times.                             *)
(***************************************************************************)
TimesReturned(i) ==
    Cardinality({k \in 1..Len(uaHist) : uaHist[k] = uaPool.uas[i]})

C24_SequentialRoundRobin ==
    LET n == Len(uaPool.uas)
        N == Len(uaHist)
    IN  /\ n > 0
        /\ N = uaPool.counter
        /\ \A k \in 1..N : uaHist[k] \in {"pending", uaPool.uas[((k - 1) % n) + 1]}
        /\ \A c \in DOMAIN uaCallers, d \in DOMAIN uaCallers :
              (c # d /\ uaCallers[c].pc = "got" /\ uaCallers[d].pc = "got")
                  => uaCallers[c].k # uaCallers[d].k
        /\ \A c \in DOMAIN uaCallers :
              uaCallers[c].pc = "got" => uaHist[uaCallers[c].k] = "pending"
        /\ (\A k \in 1..N : uaHist[k] # "pending") =>
              \A i \in 1..n :
                  /\ TimesReturned(i) >= N \div n
                  /\ TimesReturned(i) <= (N \div n) + (IF N % n = 0 THEN 0 ELSE 1)

\* four calls on a pool of three: the fourth has returned the first user agent
\* again while the third, taken by another goroutine, has not returned yet
C24_Witness ==
    /\ uaPool.uas = <<"A", "B", "C">>
    /\ Len(uaHist) = 4
    /\ uaHist[1] = "A" /\ uaHist[2] = "B"
    /\ uaHist[3] = "pending"
    /\ uaHist[4] = "A"

(***************************************************************************)
(* C25: for the JSON and CSV sinks, Query returns the results that pass the *)
(* filter ordered newest-first by created_at, for any order in which the    *)
(* results were saved; offset is applied before limit on that ordering.     *)
(***************************************************************************)
Matching(f) == {i \in 1..Len(stOut.rows) : Passes(stOut.rows[i], f)}

\* how many matching results are newer than r
NewerThan(r, f) == Cardinality({i \in Matching(f) : stOut.rows[i].CreatedAt > r.CreatedAt})

NotOlderThan(r, f) == Cardinality({i \in Matching(f) : stOut.rows[i].CreatedAt >= r.CreatedAt})

C25_QueryNewestFirst ==
    stOut.queried =>
        LET f == stOut.filter
            res == stOut.results
            left == IF Cardinality(Matching(f)) > f.Offset
                    THEN Cardinality(Matching(f)) - f.Offset ELSE 0
        IN  /\ Len(res) = IF f.Limit > 0 /\ f.Limit < left THEN f.Limit ELSE left
            /\ \A i \in 1..Len(res) : Passes(res[i], f)
            /\ \A i \in 1..Len(res), j \in 1..Len(res) :
                  i < j => res[i].CreatedAt >= res[j].CreatedAt
            \* the i-th result stands at place offset + i of the newest-first order
            /\ \A i \in 1..Len(res) :
                  /\ NewerThan(res[i], f) < f.Offset + i
                  /\ NotOlderThan(res[i], f) >= f.Offset + i

(***************************************************************************)
(* C26: Run starts exactly `concurrency` workers and none later, so at      *)
(* every instant at most `concurrency` jobs are being processed and at most *)
(* `concurrency` Fetch calls of the crawl (page fetches and robots.txt      *)
(* fetches on a cache miss) are in flight.                                  *)
(***************************************************************************)
Started == {w \in DOMAIN workers : workers[w].pc # "init"}

Processing == {w \in DOMAIN workers : workers[w].pc \notin {"init", "select", "exited"}}

Fetching == {w \in DOMAIN workers : workers[w].pc \in {"fetch", "robotsMiss"}}

C26_ExactlyConcurrencyWorkers ==
    /\ [](/\ Cardinality(DOMAIN workers) = cfg.Concurrency
          /\ runPc \in {"seed", "seedBlocked"} => Started = {}
          /\ runPc \in {"wait", "returned"} => Cardinality(Started) = cfg.Concurrency
          /\ Cardinality(Processing) <= cfg.Concurrency
          /\ Cardinality(Fetching) <= cfg.Concurrency)
    /\ [][/\ DOMAIN workers' = DOMAIN workers
          /\ runPc \in {"wait", "returned"} => Started' = Started]_vars

\* every worker of a crawl with two workers is in a Fetch call at the same instant
C26_Witness ==
    /\ cfg.Concurrency = 2
    /\ Cardinality(Fetching) = 2
    /\ \A w \in DOMAIN workers : workers[w].job.Depth >= 1

(***************************************************************************)
(* C27: at every point of Run the outstanding-work counter equals the jobs  *)
(* in the queue, plus the jobs a worker has dequeued and not yet finished,  *)
(* plus the children counted whose send is pending: every increment comes   *)
(* before its send, the counter is never negative, and it is never zero     *)
(* while a job is queued or in progress.                                    *)
(***************************************************************************)
PendingSends == {w \in DOMAIN workers : workers[w].pc = "send"}

C27_CounterIsOutstandingWork ==
    /\ jobsWg = Len(queue) + Cardinality(Processing) + Cardinality(PendingSends)
    /\ jobsWg >= 0
    /\ (queue # << >> \/ Processing # {}) => jobsWg > 0

(***************************************************************************)
(* C28: once ctx is cancelled, each worker exits at its next pass through   *)
(* its select: no worker dequeues and starts another job after the          *)
(* cancellation, also when jobs are in the queue at that moment, and every  *)
(* worker eventually exits.                                                 *)
(***************************************************************************)
ExitsAtNextSelect ==
    ctxDone =>
        \A w \in DOMAIN workers :
            workers[w].pc = "select" => workers'[w].pc \in {"select", "exited"}

C28_NoDequeueAfterCancel ==
    /\ [][ExitsAtNextSelect]_vars
    /\ (ctxDone /\ runPc \in {"wait", "returned"})
           ~> (\A w \in DOMAIN workers : workers[w].pc = "exited")

(***************************************************************************)
(* C29: when ctx is cancelled while a worker is enqueueing the children of  *)
(* a page, the worker decrements the counter for the child it could not     *)
(* send and stops: it admits no further link of that page into the visited  *)
(* set and sends no further job to the queue.                               *)
(***************************************************************************)
C29_GiveUpEndsTheLinkLoop ==
    \A w \in DOMAIN workers :
        workers[w].gaveUp => workers[w].pc \notin {"markVisited", "send"}

(***************************************************************************)
(* C30: with a queue_size smaller than the number of admissible links on a  *)
(* single page, a state is reachable in which every worker is blocked       *)
(* sending a child to the full queue; in it no worker is at its select to   *)
(* drain the queue, the outstanding-work counter is positive, done is not   *)
(* closed and Run has not returned, and the crawl stays in that state until *)
(* ctx is cancelled.                                                        *)
(***************************************************************************)
BlockedSending(w) ==
    /\ workers[w].pc = "send"
    /\ Len(queue) = Capacity

AllBlocked ==
    /\ runPc = "wait"
    /\ \A w \in DOMAIN workers : BlockedSending(w)

\* the distinct admissible links of the page a worker is enqueueing
AdmissibleLinks(w) ==
    { c \in {Canon(workers[w].links[i]) : i \in 1..Len(workers[w].links)} : Admissible(c) }

C30_FullQueueBlocksEveryWorker ==
    /\ [](AllBlocked /\ ~ctxDone =>
            /\ jobsWg > 0
            /\ ~doneClosed
            /\ \A w \in DOMAIN workers : workers[w].pc # "select")
    /\ [][AllBlocked /\ ~ctxDone =>
            \/ ctxDone'
            \/ /\ AllBlocked'
               /\ UNCHANGED <<queue, jobsWg, workers, doneClosed, runPc, runErr>>]_vars

C30_Witness ==
    /\ AllBlocked
    /\ ~ctxDone
    /\ cfg.QueueSize > 0
    /\ \E w \in DOMAIN workers : cfg.QueueSize < Cardinality(AdmissibleLinks(w))

(***************************************************************************)
(* C31: a Fetch that obtained a proxy from Pool.Next reports exactly one    *)
(* outcome for it before returning: MarkFailure exactly when the request    *)
(* ended in a transport error, MarkSuccess exactly when a response was      *)
(* received.  A Fetch for which Next returned nil makes no Mark call and    *)
(* dispatches the request with no proxy in its context.                     *)
(***************************************************************************)
TransportError == fetchOut.result.Error = "request failed"

ResponseReceived == pfOut.dispatched /\ ~TransportError

C31_OneOutcomePerProxy ==
    pfOut.called =>
        /\ pfOut.proxy # NilProxyURL =>
              /\ Len(pfOut.marks) = 1
              /\ pfOut.marks[1] = "MarkFailure" <=> TransportError
              /\ pfOut.marks[1] = "MarkSuccess" <=> ResponseReceived
        /\ (pfOut.proxy = NilProxyURL
              /\ ~(fetchIn.hasLimiter /\ fetchIn.x.limiter = "cancelled")) =>
              /\ pfOut.marks = << >>
              /\ pfOut.attached = NilProxyURL

(***************************************************************************)
(* C32: in every state reachable by Add, Next, MarkSuccess and MarkFailure  *)
(* each proxy has failures >= 0 and every proxy that is not disabled has    *)
(* failures < max_failures.  MarkSuccess lowers failures by one only when   *)
(* it is positive; MarkFailure raises it by one and disables the proxy,     *)
(* with disabled_until = now + cooldown, exactly when the new value is      *)
(* >= max_failures.                                                         *)
(***************************************************************************)
\* the step is a successful call of op on entry i and leaves the other entries alone
MarkStep(op, i) ==
    /\ poolOut'.op = op
    /\ poolOut'.err = "nil"
    /\ poolHist'.calls = poolHist.calls + 1
    /\ Len(pool'.proxies) = Len(pool.proxies)
    /\ \A j \in 1..Len(pool.proxies) : j # i => pool'.proxies[j] = pool.proxies[j]

MarkedEntry(op) ==
    IF \E i \in 1..Len(pool.proxies) : MarkStep(op, i) /\ pool'.proxies[i] # pool.proxies[i]
    THEN CHOOSE i \in 1..Len(pool.proxies) :
            MarkStep(op, i) /\ pool'.proxies[i] # pool.proxies[i]
    ELSE 0

SuccessLowersTowardZero ==
    (poolOut'.op = "MarkSuccess" /\ poolOut'.err = "nil"
        /\ poolHist'.calls = poolHist.calls + 1) =>
        LET i == MarkedEntry("MarkSuccess")
        IN  /\ i > 0
            /\ pool'.proxies[i].Failures =
                  IF pool.proxies[i].Failures > 0 THEN pool.proxies[i].Failures - 1 ELSE 0
            /\ pool'.proxies[i].Disabled = pool.proxies[i].Disabled
            /\ pool'.proxies[i].DisabledUntil = pool.proxies[i].DisabledUntil

FailureRaisesAndDisables ==
    (poolOut'.op = "MarkFailure" /\ poolOut'.err = "nil"
        /\ poolHist'.calls = poolHist.calls + 1) =>
        LET i == MarkedEntry("MarkFailure")
        IN  /\ i > 0
            /\ pool'.proxies[i].Failures = pool.proxies[i].Failures + 1
            /\ IF pool'.proxies[i].Failures >= pool.maxFailures
               THEN /\ pool'.proxies[i].Disabled
                    /\ pool'.proxies[i].DisabledUntil = poolClock + pool.cooldown
               ELSE /\ pool'.proxies[i].Disabled = pool.proxies[i].Disabled
                    /\ pool'.proxies[i].DisabledUntil = pool.proxies[i].DisabledUntil

C32_FailuresBounded ==
    /\ [](\A i \in 1..Len(pool.proxies) :
             /\ pool.proxies[i].Failures >= 0
             /\ ~pool.proxies[i].Disabled => pool.proxies[i].Failures < pool.maxFailures)
    /\ [][SuccessLowersTowardZero /\ FailureRaisesAndDisables]_vars

C32_Witness ==
    /\ poolOut.op = "MarkFailure"
    /\ poolOut.err = "nil"
    /\ pool.maxFailures = 2
    /\ \E i \in 1..Len(pool.proxies) :
          /\ pool.proxies[i].Disabled
          /\ pool.proxies[i].Failures = 2
          /\ pool.proxies[i].Successes > 0
          /\ pool.proxies[i].DisabledUntil = poolClock + pool.cooldown

(***************************************************************************)
(* C33: a disabled proxy whose disabled_until has passed is re-enabled      *)
(* (disabled = false, failures = 0) by the first Next() call made after     *)
(* that instant, whichever entry that call returns and wherever the cursor  *)
(* stands.                                                                  *)
(***************************************************************************)
CooledDown(prx, now) == prx.Disabled /\ now > prx.DisabledUntil

C33_NextReenablesEveryCooledDown ==
    poolOut.op = "Next" =>
        \A i \in 1..Len(poolOut.before.proxies) :
            CooledDown(poolOut.before.proxies[i], poolOut.now) =>
                /\ ~pool.proxies[i].Disabled
                /\ pool.proxies[i].Failures = 0

(***************************************************************************)
(* C34: a cache-miss robots.txt fetch follows up to 5 redirects whatever    *)
(* max_redirects the shared Fetcher was configured with: a robots.txt       *)
(* behind 1 to 5 redirects is fetched and parsed.  The Fetcher's redirect   *)
(* behaviour for page fetches is the same before, during and after the      *)
(* robots fetch.                                                            *)
(***************************************************************************)
Redirects(chain) == Len(chain) - 1

C34_RobotsFetchFollowsFive ==
    /\ (/\ rfOut.kind = "robots"
        /\ Redirects(rfOut.chain) \in 1..RobotsRedirects
        /\ rfOut.chain[Len(rfOut.chain)] = StatusOK) =>
           /\ rfOut.ret.err = "nil"
           /\ rfOut.ret.status = StatusOK
           /\ rfOut.data = "parsed"
    /\ rfOut.kind = "page" =>
           rfOut.ret = ClientDo(fetcher.client.MaxRedirects, rfOut.chain, 0)

(***************************************************************************)
(* C35: with rps > 0 each ticker tick lets at most one Wait call return     *)
(* nil: at any moment the number of Wait calls that have returned nil is at *)
(* most the number of ticks fired, for any number of goroutines blocked in  *)
(* Wait; and a Wait that is cancelled during its jitter sleep still         *)
(* consumes its tick and returns the context error.                         *)
(***************************************************************************)
TicksFired == IF lim.hasTicker THEN limHist.fired \div lim.interval ELSE 0

InJitter == {c \in DOMAIN limCallers : limCallers[c].pc = "jitter"}

CancelledInJitter ==
    \A c \in InJitter :
        (limCtxDone' /\ ~limCtxDone) =>
            /\ limCallers'[c].pc = "idle"
            /\ limCallers'[c].err = "cancelled"
            /\ limTick' = limTick
            /\ limHist'.returns = limHist.returns
            /\ limHist'.fired = limHist.fired

C35_OneNilReturnPerTick ==
    /\ [](lim.hasTicker =>
            Len(limHist.returns) + Cardinality(InJitter) + (IF limTick THEN 1 ELSE 0)
                <= TicksFired)
    /\ [][CancelledInJitter]_vars

C35_Witness ==
    /\ lim.hasTicker
    /\ lim.jitter > 0
    /\ Cardinality(DOMAIN limCallers) = 2
    /\ Len(limHist.returns) = TicksFired
    /\ TicksFired >= 1
    /\ \E c, d \in DOMAIN limCallers :
          /\ limCallers[c].pc = "idle" /\ limCallers[c].err = "nil"
          /\ limCallers[d].pc = "blocked"

(***************************************************************************)
(* C36: FindTermMatches returns, for each term that occurs in the content,  *)
(* exactly the sentences whose lowercased form contains the lowercased      *)
(* term, in document order: the same Sentences list that                    *)
(* FindTermMatchesOptimized returns for the same non-empty content and      *)
(* terms.                                                                   *)
(***************************************************************************)
\* the sentences of the content that contain the term, in document order
RECURSIVE Containing(_, _)
Containing(sentences, lowerTerm) ==
    IF sentences = << >> THEN << >>
    ELSE IF Contains(ToLower(Head(sentences)), lowerTerm)
    THEN <<Head(sentences)>> \o Containing(Tail(sentences), lowerTerm)
    ELSE Containing(Tail(sentences), lowerTerm)

C36_PlainMatchesOptimized ==
    (mtIn.searched /\ mtIn.content # << >> /\ mtIn.terms # << >>) =>
        /\ Len(mtOut.plain) = Len(mtOut.optimized)
        /\ \A i \in 1..Len(mtOut.plain) :
              /\ mtOut.plain[i].Sentences = mtOut.optimized[i].Sentences
              /\ mtOut.plain[i].Sentences =
                    Containing(splitIntoSentences(mtIn.content), ToLower(mtOut.plain[i].Term))

(***************************************************************************)
(* C37: when Run returns, with nil or with the cancellation error, no       *)
(* goroutine it started is left alive: every worker has exited (none is     *)
(* blocked on the job queue) and the goroutine waiting on the counter has   *)
(* finished, having closed done.                                            *)
(***************************************************************************)
C37_NoGoroutineOutlivesRun ==
    runPc = "returned" =>
        /\ \A w \in DOMAIN workers : workers[w].pc = "exited"
        /\ doneClosed

(***************************************************************************)
(* C38: seed admission never blocks Run: for any seed list, also one with   *)
(* more admitted seeds than queue_size, Run gets past the enqueueing of the *)
(* seeds and starts its workers (or returns the cancellation error), and    *)
(* the counter is then the number of admitted seeds.                        *)
(***************************************************************************)
C38_SeedAdmissionNeverBlocks ==
    /\ runPc # "seedBlocked"
    /\ (runPc = "wait" /\ \A w \in DOMAIN workers : workers[w].pc = "select"
           /\ \A c \in CanonURLs : fetched[c] = 0 /\ depthOf[c] \subseteq {0})
          => jobsWg = Len(queue)

(***************************************************************************)
(* C39: MarkSuccess(u) and MarkFailure(u) update the health counters of the *)
(* pool entry that Next() returned u from, also when the pool holds several *)
(* entries with the same URL: a call that reports on the URL Next has just  *)
(* returned changes the entry Next returned it from.                        *)
(***************************************************************************)
ReportsOnLastReturned(op) ==
    /\ poolOut.op = "Next"
    /\ poolOut.idx > 0
    /\ poolOut'.op = op
    /\ poolOut'.err = "nil"
    /\ poolHist'.calls = poolHist.calls + 1
    /\ MarkedEntry(op) > 0
    /\ pool.proxies[MarkedEntry(op)].URL = poolOut.url

C39_MarkUpdatesReturnedEntry ==
    [][\A op \in {"MarkSuccess", "MarkFailure"} :
          ReportsOnLastReturned(op) => MarkedEntry(op) = poolOut.idx]_vars

(***************************************************************************)
(* C40: with a crawler-level rps > 0 every HTTP request a crawl issues to a *)
(* target host, page fetch or robots.txt fetch on a cache miss, is preceded *)
(* by its own successful crawler-limiter Wait: the requests the crawl has   *)
(* issued never exceed the limiter ticks it has consumed.                   *)
(***************************************************************************)
RECURSIVE FetchesOf(_)
FetchesOf(urls) ==
    IF urls = {} THEN 0
    ELSE LET c == CHOOSE c \in urls : TRUE
         IN  fetched[c] + FetchesOf(urls \ {c})

\* a robots.txt fetch leaves an entry, parsed or nil, in the cache
RobotsFetches == Cardinality({k \in HostKeys : robotsCache[k] # "miss"})

RequestsIssued == FetchesOf(CanonURLs) + RobotsFetches

\* a Wait that returned nil is followed by the Fetch of processJob
TicksConsumed ==
    FetchesOf(CanonURLs) + Cardinality({w \in DOMAIN workers : workers[w].pc = "fetch"})

C40_EveryRequestWaitsForTick ==
    cfg.RequestsPerSecond > 0 => RequestsIssued <= TicksConsumed

====
